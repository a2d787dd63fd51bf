----------------------------- MODULE Deployment -----------------------------
(***************************************************************************)
(* The two processes of a deployment, the broker API and the executor      *)
(* websocket, from start to stop and to the restart by docker-compose      *)
(* ("restart: always"): the environment, the configuration files each      *)
(* loads for itself, the key file that the broker rewrites in encrypted    *)
(* form, the pen with one wallet per chain, the Redis client, the server.  *)
(* Once they serve, the broker signs orders, whose topic the executor      *)
(* websocket must let executors subscribe to.                              *)
(*                                                                         *)
(* Memory is lost when a process stops; files stay.  An operator edits     *)
(* files and deploys builds at any time.  Left out: what is in an order    *)
(* besides its perpetual and its chain, the bytes of a cipher text, ports. *)
(***************************************************************************)
EXTENDS Integers, Sequences, FiniteSetsExt

CONSTANTS
    ChainFiles, \* contents chainConfig.json may have: entries, or Unreadable
    RpcFiles,   \* contents rpc.json may have: entries, or Unreadable
    Unreadable, \* a file that is missing or not JSON
    SdkChains,  \* chains the SDK has a proxy and a multipay contract for
    GoodUrls,   \* RPC urls that can be dialled
    Keys,       \* texts an operator may install as private key
    ValidKeys,  \* those among them that are private keys
    NoKey,      \* the empty text
    Builds,     \* program images, each with its embedded key ranky.txt
    GoodBuilds, \* those whose embedded key has the length of an AES key
    Orders,     \* what clients ask for: perp, chain, valid, numeric
    MaxEdits,   \* bound: what the operator does
    MaxFaults,  \* bound: crashes and failing calls
    MaxSigned   \* bound: signatures

ASSUME DeploymentAssumption ==
    /\ Unreadable \in ChainFiles \cap RpcFiles
    /\ \A file \in (ChainFiles \cup RpcFiles) \ {Unreadable} :
          Len(file) \in Nat /\ DOMAIN file = 1..Len(file)
    /\ ValidKeys \subseteq Keys /\ NoKey \notin Keys
    /\ GoodBuilds \subseteq Builds
    /\ SdkChains \subseteq Nat \ {0}
    /\ \A o \in Orders : o.perp \in Int
    /\ MaxEdits \in Nat /\ MaxFaults \in Nat /\ MaxSigned \in Nat

Service == {"broker", "executorws"}

VARIABLES
    \* the host
    envSet,    \* whether the required variables are set
    chainFile, rpcFile, keyFile,
    build,     \* the image that is deployed
    version,   \* how often chainFile was edited
    \* the processes
    pc,        \* where each one is
    conf,      \* the chains each one loaded, with their executors
    loaded,    \* the version of chainFile each one loaded
    rpcConf,   \* the entries of rpc.json the broker loaded
    pk,        \* the broker's key in memory
    wallets,   \* the key of the wallet of each chain
    \* history
    signed,    \* signed orders, with key and version of the configuration
    given,     \* the key the operator installed last
    disturbed, \* its rewriting was cut short, failed or raced, or the build that
               \* did it cannot encrypt
    edits, faults

host == <<envSet, chainFile, rpcFile, keyFile, build, version>>
memory == <<conf, loaded, rpcConf, pk, wallets>>
history == <<signed, given, disturbed, edits, faults>>
vars == <<host, pc, memory, history>>

-----------------------------------------------------------------------------
(* What the files hold, and what the program reads in them.                *)

NoConf == [c \in {} |-> {}]

(* Entries without executors are skipped; the last entry of a chain counts.*)
Listed(file) == {i \in DOMAIN file : file[i].executors # {}}
ChainConfig(file) ==
    [c \in {file[i].chainId : i \in Listed(file)} |->
        file[Max({i \in Listed(file) : file[i].chainId = c})].executors]

(* Faulty variant of ChainConfigLoads: a chain the SDK misses is let through*)
FaultyChainConfigLoads(file) == file # Unreadable

(* log.Fatal on an unreadable file; an error if the SDK misses a chain.    *)
ChainConfigLoads(file) ==
    /\ file # Unreadable
    /\ DOMAIN ChainConfig(file) \subseteq SdkChains

(* The last entry of a chain counts here too, even if it has no url.       *)
RpcUrl(chains, list) ==
    [c \in {list[i].chainId : i \in DOMAIN list} \cap chains |->
        list[Max({i \in DOMAIN list : list[i].chainId = c})].urls]

Missing == [text |-> "missing"]
Empty == [text |-> "empty"]
Plain(k) == [text |-> "plain", key |-> k]      \* "0x" and the key
Cipher(k, b) == [text |-> "cipher", key |-> k, under |-> b]

(* The errors of Encrypt and Decrypt are ignored: the text is then empty.  *)
Encrypted(k, b) == IF b \in GoodBuilds THEN Cipher(k, b) ELSE Empty
Decrypted(file, b) ==
    IF file.text = "cipher" /\ b \in GoodBuilds
    THEN IF file.under = b THEN file.key ELSE NoKey
    ELSE NoKey
KeyIn(file, b) == IF file.text = "plain" THEN file.key ELSE Decrypted(file, b)

(* CreateRpcClient dials one url of the list, chosen at random, and tries  *)
(* that one again when it fails.  NewWallet refuses what is not a key.     *)
UrlsOf(c, chains, list) ==
    LET m == RpcUrl(chains, list) IN IF c \in DOMAIN m THEN m[c] ELSE {}
MayDial(urls) == urls \cap GoodUrls # {}
MayNotDial(urls) == ~ urls \subseteq GoodUrls

(* Faulty variant of PenMayBuild: a wallet without a client is kept.       *)
FaultyPenMayBuild(chains, list, key) == chains = {} \/ key \in ValidKeys

(* createWalletMap makes every wallet, or returns an error.                *)
PenMayBuild(chains, list, key) ==
    \A c \in chains : MayDial(UrlsOf(c, chains, list)) /\ key \in ValidKeys

(* Faulty variant of PenMayFail: the dial is tried again without end.      *)
FaultyPenMayFail(chains, list, key) ==
    \E c \in chains : UrlsOf(c, chains, list) = {} \/ key \notin ValidKeys

PenMayFail(chains, list, key) ==
    \E c \in chains : \/ UrlsOf(c, chains, list) = {}
                      \/ MayNotDial(UrlsOf(c, chains, list))
                      \/ key \notin ValidKeys

-----------------------------------------------------------------------------
Init ==
    /\ envSet \in BOOLEAN
    /\ chainFile \in ChainFiles /\ rpcFile \in RpcFiles
    /\ \E k \in Keys : keyFile \in {Missing, Plain(k)}
    /\ build \in Builds
    /\ given = KeyIn(keyFile, build)
    /\ version = 0
    /\ pc = [p \in Service |-> "off"]
    /\ conf = [p \in Service |-> NoConf]
    /\ loaded = [p \in Service |-> 0]
    /\ rpcConf = <<>> /\ pk = NoKey /\ wallets = NoConf
    /\ signed = {} /\ disturbed = FALSE
    /\ edits = 0 /\ faults = 0

Goto(p, l) == pc' = [pc EXCEPT ![p] = l]

(* The process ends: what it had in memory is gone.                        *)
Forget(p) ==
    /\ conf' = [conf EXCEPT ![p] = NoConf]
    /\ loaded' = [loaded EXCEPT ![p] = 0]
    /\ IF p = "broker"
       THEN rpcConf' = <<>> /\ pk' = NoKey /\ wallets' = NoConf
       ELSE UNCHANGED <<rpcConf, pk, wallets>>
Exit(p) == Goto(p, "off") /\ Forget(p)

(* loadEnv; without a required variable the process ends at once and is    *)
(* started again.                                                          *)
Start(p) ==
    /\ pc[p] = "off" /\ envSet
    /\ Goto(p, "chains")
    /\ UNCHANGED <<host, memory, history>>

LoadChainConfig(p) ==
    /\ pc[p] = "chains"
    /\ IF ChainConfigLoads(chainFile)
       THEN /\ conf' = [conf EXCEPT ![p] = ChainConfig(chainFile)]
            /\ loaded' = [loaded EXCEPT ![p] = version]
            /\ Goto(p, IF p = "broker" THEN "rpc" ELSE "redis")
            /\ UNCHANGED <<rpcConf, pk, wallets>>
       ELSE Exit(p)
    /\ UNCHANGED <<host, history>>

LoadRpcConfig ==
    /\ pc["broker"] = "rpc"
    /\ IF rpcFile = Unreadable
       THEN Exit("broker")
       ELSE /\ rpcConf' = rpcFile
            /\ Goto("broker", "key")
            /\ UNCHANGED <<conf, loaded, pk, wallets>>
    /\ UNCHANGED <<host, history>>

(* Faulty variant of ReadKey: what was read is always encrypted and stored.*)
FaultyReadKey ==
    /\ pc["broker"] = "key"
    /\ pk' = IF keyFile.text = "plain" THEN keyFile.key ELSE NoKey
    /\ Goto("broker", "encrypted")
    /\ UNCHANGED <<host, conf, loaded, rpcConf, wallets, history>>

(* LoadFromFile.  The plain key stays in memory whatever becomes of the    *)
(* file.                                                                   *)
ReadKey ==
    /\ pc["broker"] = "key"
    /\ pk' = KeyIn(keyFile, build)
    /\ Goto("broker", IF keyFile.text = "plain" THEN "encrypted" ELSE "pen")
    /\ UNCHANGED <<host, conf, loaded, rpcConf, wallets, history>>

(* writeToFile: os.WriteFile truncates the file, then writes.              *)
TruncateKeyFile ==
    /\ pc["broker"] = "encrypted"
    /\ keyFile' = Empty
    /\ Goto("broker", "truncated")
    /\ UNCHANGED <<envSet, chainFile, rpcFile, build, version, memory, history>>

WriteKeyFile ==
    /\ pc["broker"] = "truncated"
    /\ keyFile' = Encrypted(pk, build)
    /\ disturbed' = (disturbed \/ build \notin GoodBuilds)
    /\ Goto("broker", "pen")
    /\ UNCHANGED <<envSet, chainFile, rpcFile, build, version, memory,
                   signed, given, edits, faults>>

(* NewSignaturePen: all the wallets, or an error.                          *)
CreatePen ==
    /\ pc["broker"] = "pen"
    /\ \/ /\ PenMayBuild(DOMAIN conf["broker"], rpcConf, pk)
          /\ wallets' = [c \in DOMAIN conf["broker"] |-> pk]
          /\ Goto("broker", "redis")
          /\ UNCHANGED <<conf, loaded, rpcConf, pk>>
       \/ /\ PenMayFail(DOMAIN conf["broker"], rpcConf, pk)
          /\ Exit("broker")
    /\ UNCHANGED <<host, history>>

(* rueidis.NewClient, then ListenAndServe.                                 *)
Serve(p) ==
    /\ pc[p] = "redis"
    /\ Goto(p, "serving")
    /\ UNCHANGED <<host, memory, history>>

(* A process dies: a crash, or a call whose error ends it (the Redis       *)
(* client, the RPC client, ListenAndServe, the Redis subscription).        *)
Crash(p) ==
    /\ pc[p] # "off" /\ faults < MaxFaults
    /\ faults' = faults + 1
    /\ disturbed' = (disturbed \/ (p = "broker" /\ pc[p] = "truncated"))
    /\ Exit(p)
    /\ UNCHANGED <<host, signed, given, edits>>

(* os.WriteFile fails, to open the file or to write it, and the error is   *)
(* only logged.                                                            *)
KeyFileFails ==
    /\ pc["broker"] \in {"encrypted", "truncated"} /\ faults < MaxFaults
    /\ faults' = faults + 1
    /\ disturbed' = (disturbed \/ pc["broker"] = "truncated")
    /\ Goto("broker", "pen")
    /\ UNCHANGED <<host, memory, signed, given, edits>>

-----------------------------------------------------------------------------
(* Serving.                                                                *)

(* BrokerAddress takes the wallet that the range over the map comes to     *)
(* first: what it may return.                                              *)
BrokerAddress == {wallets[c] : c \in DOMAIN wallets}

(* The broker's own address is put in before CheckData asks for one; a     *)
(* deadline and a trader are asked for too.                                *)
CheckData(o) == o.valid /\ o.chain # 0 /\ o.perp # 0 /\ BrokerAddress # {}

(* Prices and amount are numbers, and the SDK knows the chain.             *)
HasDigest(o) == o.numeric /\ o.chain \in SdkChains

SignOrder(o) ==
    /\ pc["broker"] = "serving"
    /\ Cardinality(signed) < MaxSigned
    /\ CheckData(o) /\ HasDigest(o)
    /\ o.chain \in DOMAIN conf["broker"] \cap DOMAIN wallets
    /\ signed' = signed \cup
          {[perp |-> o.perp, chain |-> o.chain, key |-> wallets[o.chain],
            version |-> loaded["broker"]]}
    /\ UNCHANGED <<host, pc, memory, given, disturbed, edits, faults>>

(* Faulty variant of IsValidOrderTopic: the first perpetual is left out.    *)
FaultyIsValidOrderTopic(perp, chain) ==
    /\ {perp, chain} \subseteq Nat
    /\ perp > 100000
    /\ chain \in DOMAIN conf["executorws"]

(* SubscribeOrders accepts the topic "perp:chain": it matches              *)
(* [0-9]+:[0-9]+, which a negative number does not, the perpetual is not   *)
(* too small, the chain is configured.                                     *)
IsValidOrderTopic(perp, chain) ==
    /\ {perp, chain} \subseteq Nat
    /\ perp >= 100000
    /\ chain \in DOMAIN conf["executorws"]

-----------------------------------------------------------------------------
(* The operator.                                                           *)

EditConfig ==
    /\ edits < MaxEdits /\ edits' = edits + 1
    /\ \/ /\ envSet' \in BOOLEAN
          /\ UNCHANGED <<chainFile, rpcFile, version>>
       \/ /\ chainFile' \in ChainFiles
          /\ version' = version + 1
          /\ UNCHANGED <<envSet, rpcFile>>
       \/ /\ rpcFile' \in RpcFiles
          /\ UNCHANGED <<envSet, chainFile, version>>
    /\ UNCHANGED <<keyFile, build, pc, memory, signed, given, disturbed, faults>>

(* A key installed while the broker rewrites the file is overwritten.      *)
InstallKey(k) ==
    /\ edits < MaxEdits /\ edits' = edits + 1
    /\ keyFile' = Plain(k)
    /\ given' = k
    /\ disturbed' = (pc["broker"] \in {"encrypted", "truncated"})
    /\ UNCHANGED <<envSet, chainFile, rpcFile, build, version, pc, memory,
                   signed, faults>>

(* A new image replaces both containers: any build, the same one or one    *)
(* that ran before included.                                               *)
Redeploy(b) ==
    /\ edits < MaxEdits /\ edits' = edits + 1
    /\ build' = b
    /\ disturbed' = (disturbed \/ pc["broker"] = "truncated")
    /\ pc' = [p \in Service |-> "off"]
    /\ conf' = [p \in Service |-> NoConf] /\ loaded' = [p \in Service |-> 0]
    /\ rpcConf' = <<>> /\ pk' = NoKey /\ wallets' = NoConf
    /\ UNCHANGED <<envSet, chainFile, rpcFile, keyFile, version, signed, given,
                   faults>>

-----------------------------------------------------------------------------
Run(p) ==
    \/ Start(p) \/ LoadChainConfig(p) \/ Serve(p)
    \/ p = "broker" /\ (\/ LoadRpcConfig \/ ReadKey
                        \/ TruncateKeyFile \/ WriteKeyFile \/ CreatePen)

Next ==
    \/ \E p \in Service : Run(p) \/ Crash(p)
    \/ KeyFileFails
    \/ \E o \in Orders : SignOrder(o)
    \/ EditConfig
    \/ \E k \in Keys : InstallKey(k)
    \/ \E b \in Builds : Redeploy(b)

Spec == Init /\ [][Next]_vars

(* docker-compose restarts a process that ended; a running one runs on.    *)
FairSpec == Spec /\ \A p \in Service : WF_vars(Run(p))

-----------------------------------------------------------------------------
(* Properties.                                                             *)

KeyTexts == Keys \cup {NoKey}
KeyFiles == {Missing, Empty} \cup {Plain(k) : k \in Keys}
                \cup {Cipher(k, b) : k \in KeyTexts, b \in GoodBuilds}
IsConf(f) == DOMAIN f \subseteq SdkChains /\ \A c \in DOMAIN f : f[c] # {}

(* Every variable has its type; a process has only loaded chains that the  *)
(* SDK knows and that have an executor.                                    *)
TypeOK ==
    /\ envSet \in BOOLEAN /\ disturbed \in BOOLEAN
    /\ chainFile \in ChainFiles /\ rpcFile \in RpcFiles
    /\ keyFile \in KeyFiles
    /\ build \in Builds
    /\ version \in 0..MaxEdits /\ loaded \in [Service -> 0..MaxEdits]
    /\ pc["executorws"] \in {"off", "chains", "redis", "serving"}
    /\ pc["broker"] \in {"off", "chains", "rpc", "key", "encrypted",
                         "truncated", "pen", "redis", "serving"}
    /\ \A p \in Service : IsConf(conf[p])
    /\ rpcConf \in RpcFiles \cup {<<>>}
    /\ pk \in KeyTexts /\ given \in KeyTexts
    /\ \A c \in DOMAIN wallets : wallets[c] \in ValidKeys
    /\ \A s \in signed : s.chain \in SdkChains /\ s.key \in ValidKeys
    /\ edits \in 0..MaxEdits /\ faults \in 0..MaxFaults

(* A broker that serves has, for every chain whose executors it would sign *)
(* payments for, a wallet with the one broker key and an url to dial:      *)
(* ApproveToken, which takes Wallets[chain] without looking, finds it, and *)
(* BrokerAddress may take the wallet of any chain ("same address for all   *)
(* chains", handlers.go:40).                                               *)
ServedIsComplete ==
    pc["broker"] = "serving" =>
        LET chains == DOMAIN conf["broker"] IN
        /\ DOMAIN wallets = chains
        /\ \A c \in chains : UrlsOf(c, chains, rpcConf) # {}
        /\ BrokerAddress \subseteq {pk} \cap ValidKeys

(* The deployed build cannot decrypt the key file: another build wrote it. *)
Undecipherable == keyFile.text = "cipher" /\ keyFile.under # build

(* The key the operator installed last can be read back from the key file, *)
(* before and after the broker rewrote it, whatever builds come and go,    *)
(* unless the rewriting was cut short, failed, raced with the operator or  *)
(* was done by a build that cannot encrypt; or another build than the one  *)
(* that encrypted it is deployed, and only as long as it is.  In the       *)
(* middle of the rewriting the key is in the broker's memory only.         *)
KeySurvives ==
    \/ disturbed
    \/ Undecipherable
    \/ KeyIn(keyFile, build) = given
    \/ pc["broker"] = "truncated" /\ pk = given

(* When both processes loaded the same chainConfig.json, executors can     *)
(* subscribe to the topic of every order the broker signed under it.  The  *)
(* broker does not know the executor websocket's lower bound of perpetual  *)
(* ids: it signs orders below 100000, which nobody can subscribe to.       *)
SignedTopicIsAccepted ==
    \A s \in signed :
        (/\ pc["executorws"] \in {"redis", "serving"}
         /\ loaded["executorws"] = s.version
         /\ s.perp >= 100000)
        => IsValidOrderTopic(s.perp, s.chain)

(* What a process needs from the host to come up whatever it dials.        *)
Startable(p) ==
    /\ envSet /\ ChainConfigLoads(chainFile)
    /\ p = "broker" =>
        /\ rpcFile # Unreadable
        /\ \A c \in DOMAIN ChainConfig(chainFile) :
              LET urls == UrlsOf(c, DOMAIN ChainConfig(chainFile), rpcFile) IN
              /\ urls # {} /\ urls \subseteq GoodUrls
              /\ KeyIn(keyFile, build) \in ValidKeys

(* A process whose environment, files and key are in order comes up, after *)
(* whatever crashes and whatever it had loaded before, unless they change. *)
ServesAgain ==
    \A p \in Service :
        Startable(p) ~> (pc[p] = "serving" \/ ~ Startable(p))
=============================================================================
