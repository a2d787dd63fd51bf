--------------------------- MODULE DeploymentProofs ---------------------------
(***************************************************************************)
(* Theorems about Deployment, for any configuration files, keys, builds    *)
(* and orders, and for any number of edits, faults and signatures.         *)
(***************************************************************************)
EXTENDS Deployment, Positions, TLAPS

Running == {"redis", "serving"}

(* Past "chains", and what each process has then.                          *)
HasChains(p) == pc[p] \notin {"off", "chains"}

(* The versions of chainConfig.json are counted by the edits, and a process*)
(* has a version that was there.                                           *)
VersionsOK ==
    /\ version <= edits
    /\ \A p \in Service : loaded[p] <= version

ProcessesOK ==
    /\ pc \in [Service -> {"off", "chains", "rpc", "key", "encrypted",
                           "truncated", "pen", "redis", "serving"}]
    /\ conf = [p \in Service |-> conf[p]]

Shape == TypeOK /\ ProcessesOK /\ VersionsOK

(* The pen of a broker that is past it has one wallet for each chain, with *)
(* the key in memory, and an url for each chain.                           *)
PenOK ==
    pc["broker"] \in Running =>
        /\ DOMAIN wallets = DOMAIN conf["broker"]
        /\ \A c \in DOMAIN conf["broker"] :
              /\ wallets[c] = pk /\ pk \in ValidKeys
              /\ UrlsOf(c, DOMAIN conf["broker"], rpcConf) # {}

(* The file holds the operator's key, as text or under whatever build's    *)
(* key; while it is rewritten the broker's memory does, too.               *)
KeyOK ==
    disturbed \/
        /\ keyFile.text \in {"plain", "cipher"} => keyFile.key = given
        /\ keyFile.text = "missing" => given = NoKey
        /\ keyFile.text = "empty" <=> pc["broker"] = "truncated"
        /\ pc["broker"] \in {"encrypted", "truncated"} => pk = given

(* Same version, same chains: in the file, in both processes, and in what  *)
(* was signed.                                                             *)
ChainsAgree ==
    /\ \A p \in Service : HasChains(p) /\ loaded[p] = version =>
          conf[p] = ChainConfig(chainFile)
    /\ \A p, q \in Service : HasChains(p) /\ HasChains(q) /\ loaded[p] = loaded[q] =>
          conf[p] = conf[q]
    /\ \A s \in signed :
          /\ s.perp \in Int
          /\ s.version \in Nat /\ s.version <= version
          /\ s.version = version => s.chain \in DOMAIN ChainConfig(chainFile)
          /\ \A p \in Service : HasChains(p) /\ loaded[p] = s.version =>
                s.chain \in DOMAIN conf[p]

DeploymentInv == Shape /\ PenOK /\ KeyOK /\ ChainsAgree

-----------------------------------------------------------------------------
(* Files                                                                   *)

(* A set of positions has a last one, which is its Max: the last entry of  *)
(* a chain counts.                                                         *)
LEMMA LastEntry ==
    ASSUME NEW n \in Nat, NEW S \in SUBSET (1..n), S # {}
    PROVE  Max(S) \in S
<1>1. \E i \in S : \A j \in S : i >= j
  BY LastOf
<1>2. QED
  BY <1>1 DEF Max

(* A configuration that loads has chains of the SDK only, and executors for*)
(* each.                                                                   *)
LEMMA ConfLoaded ==
    ASSUME NEW file \in ChainFiles, ChainConfigLoads(file)
    PROVE  IsConf(ChainConfig(file))
<1>1. Len(file) \in Nat /\ DOMAIN file = 1..Len(file)
  BY DeploymentAssumption DEF ChainConfigLoads
<1>2. DOMAIN ChainConfig(file) \subseteq SdkChains
  BY DEF ChainConfigLoads
<1>3. ASSUME NEW c \in DOMAIN ChainConfig(file)
      PROVE  ChainConfig(file)[c] # {}
  <2> DEFINE S == {i \in Listed(file) : file[i].chainId = c}
  <2>1. c \in {file[i].chainId : i \in Listed(file)}
    BY <1>3 DEF ChainConfig
  <2>2. S \in SUBSET (1..Len(file)) /\ S # {}
    BY <1>1, <2>1 DEF Listed
  <2>3. Max(S) \in S
    <3> HIDE DEF S
    <3>1. QED
      BY <1>1, <2>2, LastEntry
  <2>4. ChainConfig(file)[c] = file[Max(S)].executors
    BY <2>1 DEF ChainConfig
  <2>5. QED
    BY <2>3, <2>4 DEF Listed
<1>4. QED
  BY <1>2, <1>3 DEF IsConf

(* Without chains there is nothing to fail.                                *)
LEMMA NoConfIsConf == IsConf(NoConf) /\ DOMAIN NoConf = {}
BY DEF IsConf, NoConf

(* What is read of a key file is a text of a key, or none.                 *)
LEMMA KeyRead ==
    ASSUME NEW file \in KeyFiles, NEW b \in Builds
    PROVE  KeyIn(file, b) \in KeyTexts
BY DEF KeyFiles, KeyIn, Decrypted, Missing, Empty, Plain, Cipher, KeyTexts

(* Whatever the key, and whatever Encrypt does, the file has a known form. *)
LEMMA KeyWritten ==
    ASSUME NEW k \in KeyTexts, NEW b \in Builds
    PROVE  Encrypted(k, b) \in KeyFiles
  BY DEF KeyFiles, Encrypted
-----------------------------------------------------------------------------
(* Types                                                                   *)

(* What the steps need of the constants.                                   *)
LEMMA ConstantsOK ==
    /\ Unreadable \in ChainFiles \cap RpcFiles
    /\ ValidKeys \subseteq KeyTexts
    /\ GoodBuilds \subseteq Builds
    /\ SdkChains \subseteq Nat \ {0}
    /\ \A o \in Orders : o.perp \in Int
    /\ MaxEdits \in Nat /\ MaxFaults \in Nat
BY DeploymentAssumption DEF KeyTexts

(* At the start all have their shape.                                      *)
LEMMA ShapeInit == Init => Shape
<1> SUFFICES ASSUME Init
             PROVE  Shape
  OBVIOUS
<1>1. keyFile \in KeyFiles /\ given \in KeyTexts
  <2>1. keyFile \in KeyFiles
    BY DEF Init, KeyFiles
  <2>2. QED
    BY <2>1, KeyRead DEF Init
<1>2. \A p \in Service : IsConf(conf[p])
  BY NoConfIsConf DEF Init
<1>3. TypeOK
  <2>1. version \in 0..MaxEdits /\ loaded \in [Service -> 0..MaxEdits]
    BY ConstantsOK DEF Init
  <2>2. /\ rpcConf \in RpcFiles \cup {<<>>} /\ pk \in KeyTexts
        /\ \A c \in DOMAIN wallets : wallets[c] \in ValidKeys
        /\ \A s \in signed : s.chain \in SdkChains /\ s.key \in ValidKeys
    BY NoConfIsConf DEF Init, KeyTexts
  <2>3. edits \in 0..MaxEdits /\ faults \in 0..MaxFaults
    BY ConstantsOK DEF Init
  <2>4. QED
    BY <1>1, <1>2, <2>1, <2>2, <2>3 DEF Init, TypeOK, Service
<1>4. ProcessesOK /\ VersionsOK
  BY ConstantsOK DEF Init, ProcessesOK, VersionsOK
<1>5. QED
  BY <1>3, <1>4 DEF Shape

(* A process that ends keeps the shape of its memory.                      *)
LEMMA ExitShape ==
    ASSUME Shape, NEW p \in Service, Exit(p), UNCHANGED host, UNCHANGED <<signed, given, edits>>,
           disturbed' \in BOOLEAN, faults' \in 0..MaxFaults
    PROVE  Shape'
<1> USE DEF Service
<1>1. pc' = [pc EXCEPT ![p] = "off"] /\ conf' = [conf EXCEPT ![p] = NoConf] /\ loaded' = [loaded EXCEPT ![p] = 0]
  BY DEF Exit, Goto, Forget
<1>2. /\ rpcConf' \in {rpcConf, <<>>}
      /\ pk' \in {pk, NoKey}
      /\ wallets' \in {wallets, NoConf}
  BY DEF Exit, Forget
<1>3. \A q \in Service : IsConf(conf'[q])
  BY <1>1, NoConfIsConf DEF Shape, TypeOK, ProcessesOK
<1>4. \A c \in DOMAIN wallets' : wallets'[c] \in ValidKeys
  BY <1>2, NoConfIsConf DEF Shape, TypeOK
<1>5. TypeOK'
  BY <1>1, <1>2, <1>3, <1>4, ConstantsOK DEF Shape, TypeOK, ProcessesOK, host, KeyTexts
<1>6. ProcessesOK'
  BY <1>1 DEF Shape, ProcessesOK
<1>7. VersionsOK'
  BY <1>1, ConstantsOK DEF Shape, TypeOK, VersionsOK, host
<1>8. QED
  BY <1>5, <1>6, <1>7 DEF Shape

(* Every step keeps the shape.                                             *)
LEMMA ShapeStep ==
    ASSUME Shape, [Next]_vars
    PROVE  Shape'
<1> USE DEF Service
<1>1. ASSUME NEW p \in Service, Start(p) \/ Serve(p)
      PROVE  Shape'
  BY <1>1 DEF Shape, TypeOK, ProcessesOK, VersionsOK, Start, Serve, Goto, host, memory, history
<1>2. ASSUME NEW p \in Service, LoadChainConfig(p)
      PROVE  Shape'
  <2>1. CASE ~ChainConfigLoads(chainFile)
    <3>1. Exit(p) /\ UNCHANGED host /\ UNCHANGED history
      BY <1>2, <2>1 DEF LoadChainConfig
    <3>2. QED
      BY <3>1, ExitShape DEF Shape, TypeOK, history
  <2>2. CASE ChainConfigLoads(chainFile)
    <3>1. IsConf(ChainConfig(chainFile))
      BY <2>2, ConfLoaded DEF Shape, TypeOK
    <3>2. conf' = [conf EXCEPT ![p] = ChainConfig(chainFile)] /\ loaded' = [loaded EXCEPT ![p] = version]
          /\ UNCHANGED <<rpcConf, pk, wallets>>
          /\ pc' = [pc EXCEPT ![p] = IF p = "broker" THEN "rpc" ELSE "redis"]
      BY <1>2, <2>2 DEF LoadChainConfig, Goto
    <3>3. UNCHANGED host /\ UNCHANGED history
      BY <1>2 DEF LoadChainConfig
    <3>4. \A q \in Service : IsConf(conf'[q])
      BY <3>1, <3>2 DEF Shape, TypeOK, ProcessesOK
    <3>5. TypeOK'
      BY <3>2, <3>3, <3>4 DEF Shape, TypeOK, ProcessesOK, host, history
    <3>6. ProcessesOK'
      BY <3>2 DEF Shape, ProcessesOK
    <3>7. VersionsOK'
      BY <3>2, <3>3, ConstantsOK DEF Shape, TypeOK, VersionsOK, host, history
    <3>8. QED
      BY <3>5, <3>6, <3>7 DEF Shape
  <2>3. QED
    BY <2>1, <2>2
<1>3. ASSUME LoadRpcConfig
      PROVE  Shape'
  <2>1. CASE rpcFile = Unreadable
    <3>1. Exit("broker") /\ UNCHANGED host /\ UNCHANGED history
      BY <1>3, <2>1 DEF LoadRpcConfig
    <3>2. QED
      BY <3>1, ExitShape DEF Shape, TypeOK, history
  <2>2. CASE rpcFile # Unreadable
    BY <1>3, <2>2 DEF Shape, TypeOK, ProcessesOK, VersionsOK, LoadRpcConfig, Goto, host, history
  <2>3. QED
    BY <2>1, <2>2
<1>4. ASSUME ReadKey
      PROVE  Shape'
  <2>1. pk' \in KeyTexts
    BY <1>4, KeyRead DEF Shape, TypeOK, ReadKey
  <2>2. QED
    BY <1>4, <2>1 DEF Shape, TypeOK, ProcessesOK, VersionsOK, ReadKey, Goto, host, history
<1>5. ASSUME TruncateKeyFile
      PROVE  Shape'
  <2>1. keyFile' \in KeyFiles
    BY <1>5 DEF TruncateKeyFile, KeyFiles
  <2>2. QED
    BY <1>5, <2>1 DEF Shape, TypeOK, ProcessesOK, VersionsOK, TruncateKeyFile, Goto, memory, history
<1>6. ASSUME WriteKeyFile
      PROVE  Shape'
  <2>1. keyFile' \in KeyFiles
    BY <1>6, KeyWritten DEF Shape, TypeOK, WriteKeyFile
  <2>2. QED
    BY <1>6, <2>1 DEF Shape, TypeOK, ProcessesOK, VersionsOK, WriteKeyFile, Goto, memory
<1>7. ASSUME CreatePen
      PROVE  Shape'
  <2>1. CASE Exit("broker") /\ UNCHANGED host /\ UNCHANGED history
    BY <2>1, ExitShape DEF Shape, TypeOK, history
  <2>2. CASE ~(Exit("broker") /\ UNCHANGED host /\ UNCHANGED history)
    <3>1. /\ PenMayBuild(DOMAIN conf["broker"], rpcConf, pk)
          /\ wallets' = [c \in DOMAIN conf["broker"] |-> pk]
          /\ pc' = [pc EXCEPT !["broker"] = "redis"]
          /\ UNCHANGED <<conf, loaded, rpcConf, pk>> /\ UNCHANGED host /\ UNCHANGED history
      BY <1>7, <2>2 DEF CreatePen, Goto
    <3>2. \A c \in DOMAIN wallets' : wallets'[c] \in ValidKeys
      BY <3>1 DEF PenMayBuild
    <3>3. QED
      BY <3>1, <3>2 DEF Shape, TypeOK, ProcessesOK, VersionsOK, host, history
  <2>3. QED
    BY <2>1, <2>2
<1>8. ASSUME NEW p \in Service, Crash(p)
      PROVE  Shape'
  <2>1. faults' \in 0..MaxFaults /\ disturbed' \in BOOLEAN
    BY <1>8, ConstantsOK DEF Shape, TypeOK, Crash
  <2>2. Exit(p) /\ UNCHANGED host /\ UNCHANGED <<signed, given, edits>>
    BY <1>8 DEF Crash
  <2>3. QED
    BY <2>1, <2>2, ExitShape
<1>9. ASSUME KeyFileFails
      PROVE  Shape'
  <2>1. faults' \in 0..MaxFaults /\ disturbed' \in BOOLEAN
    BY <1>9, ConstantsOK DEF Shape, TypeOK, KeyFileFails
  <2>2. QED
    BY <1>9, <2>1 DEF Shape, TypeOK, ProcessesOK, VersionsOK, KeyFileFails, Goto, host, memory
<1>10. ASSUME NEW o \in Orders, SignOrder(o)
       PROVE  Shape'
  <2> DEFINE s == [perp |-> o.perp, chain |-> o.chain, key |-> wallets[o.chain],
                   version |-> loaded["broker"]]
  <2>1. signed' = signed \cup {s}
    BY <1>10 DEF SignOrder
  <2>2. s.chain \in SdkChains /\ s.key \in ValidKeys
    BY <1>10 DEF SignOrder, HasDigest, Shape, TypeOK
  <2>3. \A x \in signed' : x.chain \in SdkChains /\ x.key \in ValidKeys
    <3> HIDE DEF s
    <3>1. QED
      BY <2>1, <2>2 DEF Shape, TypeOK
  <2>4. UNCHANGED <<host, pc, memory, given, disturbed, edits, faults>>
    BY <1>10 DEF SignOrder
  <2>5. QED
    BY <2>3, <2>4 DEF Shape, TypeOK, ProcessesOK, VersionsOK, host, memory
<1>11. ASSUME EditConfig
       PROVE  Shape'
  <2>1. edits' \in 0..MaxEdits /\ edits' = edits + 1 /\ version' \in {version, version + 1}
    BY <1>11, ConstantsOK DEF Shape, TypeOK, EditConfig
  <2>2. version' \in 0..MaxEdits /\ version' <= edits' /\ version <= version'
    BY <2>1, ConstantsOK DEF Shape, TypeOK, VersionsOK
  <2>3. \A p \in Service : loaded[p] <= version'
    BY <2>2, ConstantsOK DEF Shape, TypeOK, VersionsOK
  <2>4. /\ envSet' \in BOOLEAN /\ chainFile' \in ChainFiles /\ rpcFile' \in RpcFiles
        /\ UNCHANGED <<keyFile, build, pc, memory, signed, given, disturbed, faults>>
    BY <1>11 DEF Shape, TypeOK, EditConfig
  <2>5. QED
    BY <2>1, <2>2, <2>3, <2>4 DEF Shape, TypeOK, ProcessesOK, VersionsOK, memory
<1>12. ASSUME NEW k \in Keys, InstallKey(k)
       PROVE  Shape'
  <2>1. /\ edits' \in 0..MaxEdits /\ edits' = edits + 1 /\ disturbed' \in BOOLEAN
        /\ keyFile' \in KeyFiles /\ given' \in KeyTexts
    BY <1>12, ConstantsOK DEF Shape, TypeOK, InstallKey, KeyFiles, KeyTexts
  <2>2. UNCHANGED <<envSet, chainFile, rpcFile, build, version, pc, memory, signed, faults>>
    BY <1>12 DEF InstallKey
  <2>3. VersionsOK'
    BY <2>1, <2>2, ConstantsOK DEF Shape, TypeOK, VersionsOK, memory
  <2>4. QED
    BY <2>1, <2>2, <2>3 DEF Shape, TypeOK, ProcessesOK, memory
<1>13. ASSUME NEW b \in Builds, Redeploy(b)
       PROVE  Shape'
  <2>1. edits' \in 0..MaxEdits /\ edits' = edits + 1 /\ disturbed' \in BOOLEAN
    BY <1>13, ConstantsOK DEF Shape, TypeOK, Redeploy
  <2>2. /\ \A p \in Service : IsConf(conf'[p])
        /\ \A c \in DOMAIN wallets' : wallets'[c] \in ValidKeys
        /\ loaded' \in [Service -> 0..MaxEdits] /\ \A p \in Service : loaded'[p] = 0
        /\ rpcConf' = <<>> /\ pk' \in KeyTexts
    BY <1>13, NoConfIsConf, ConstantsOK DEF Redeploy, KeyTexts
  <2>3. pc' = [p \in Service |-> "off"] /\ build' \in Builds
    BY <1>13 DEF Redeploy
  <2>4. UNCHANGED <<envSet, chainFile, rpcFile, keyFile, version, signed, given, faults>>
    BY <1>13 DEF Redeploy
  <2>5. TypeOK'
    BY <2>1, <2>2, <2>3, <2>4 DEF Shape, TypeOK
  <2>6. ProcessesOK'
    BY <1>13, <2>3 DEF Redeploy, ProcessesOK
  <2>7. VersionsOK'
    BY <2>1, <2>2, <2>4, ConstantsOK DEF Shape, TypeOK, VersionsOK
  <2>8. QED
    BY <2>5, <2>6, <2>7 DEF Shape
<1>14. ASSUME UNCHANGED vars
       PROVE  Shape'
  BY <1>14 DEF Shape, TypeOK, ProcessesOK, VersionsOK, vars, host, memory, history
<1>15. QED
  BY <1>1, <1>2, <1>3, <1>4, <1>5, <1>6, <1>7, <1>8, <1>9, <1>10, <1>11, <1>12, <1>13, <1>14
     DEF Next, Run
-----------------------------------------------------------------------------
(* The pen                                                                 *)

(* Every step keeps the pen of a running broker complete.                  *)
LEMMA PenStep ==
    ASSUME Shape, PenOK, [Next]_vars
    PROVE  PenOK'
<1> USE DEF Service, Running
<1>1. SUFFICES ASSUME pc'["broker"] \in Running
               PROVE  /\ DOMAIN wallets' = DOMAIN conf'["broker"]
                      /\ \A c \in DOMAIN conf'["broker"] :
                            /\ wallets'[c] = pk' /\ pk' \in ValidKeys
                            /\ UrlsOf(c, DOMAIN conf'["broker"], rpcConf') # {}
  BY Zenon DEF PenOK, UrlsOf, RpcUrl
<1>2. CASE pc["broker"] \in Running /\ UNCHANGED <<wallets, pk, rpcConf>> /\ conf'["broker"] = conf["broker"]
  BY <1>2 DEF PenOK
<1>3. ASSUME CreatePen
      PROVE  /\ DOMAIN wallets' = DOMAIN conf'["broker"]
             /\ \A c \in DOMAIN conf'["broker"] :
                   /\ wallets'[c] = pk' /\ pk' \in ValidKeys
                   /\ UrlsOf(c, DOMAIN conf'["broker"], rpcConf') # {}
  <2>1. ~Exit("broker")
    BY <1>1 DEF Exit, Goto, Shape, ProcessesOK
  <2>2. /\ PenMayBuild(DOMAIN conf["broker"], rpcConf, pk)
        /\ wallets' = [c \in DOMAIN conf["broker"] |-> pk]
        /\ UNCHANGED <<conf, rpcConf, pk>>
    BY <1>3, <2>1 DEF CreatePen
  <2>3. QED
    BY <2>2 DEF PenMayBuild, MayDial
<1>4. ASSUME NEW p \in Service, Exit(p)
      PROVE  /\ pc["broker"] \in Running /\ UNCHANGED <<wallets, pk, rpcConf>>
             /\ conf'["broker"] = conf["broker"]
  <2>1. p = "executorws"
    BY <1>1, <1>4 DEF Exit, Goto, Shape, ProcessesOK
  <2>2. QED
    BY <1>1, <1>4, <2>1 DEF Exit, Goto, Forget, Shape, ProcessesOK
<1>5. ASSUME NEW p \in Service, Start(p) \/ Serve(p)
      PROVE  pc["broker"] \in Running /\ UNCHANGED <<wallets, pk, rpcConf>> /\ conf'["broker"] = conf["broker"]
  BY <1>1, <1>5 DEF Start, Serve, Goto, Shape, ProcessesOK, memory
<1>6. ASSUME NEW p \in Service, LoadChainConfig(p)
      PROVE  pc["broker"] \in Running /\ UNCHANGED <<wallets, pk, rpcConf>> /\ conf'["broker"] = conf["broker"]
  <2>1. CASE Exit(p)
    BY <1>4, <2>1
  <2>2. CASE ~Exit(p)
    BY <1>1, <1>6, <2>2 DEF LoadChainConfig, Goto, Shape, ProcessesOK
  <2>3. QED
    BY <2>1, <2>2
<1>7. ASSUME NEW p \in Service, Crash(p)
      PROVE  pc["broker"] \in Running /\ UNCHANGED <<wallets, pk, rpcConf>> /\ conf'["broker"] = conf["broker"]
  BY <1>4, <1>7 DEF Crash
<1>8. ~(LoadRpcConfig \/ ReadKey \/ TruncateKeyFile \/ WriteKeyFile \/ KeyFileFails)
  BY <1>1 DEF LoadRpcConfig, ReadKey, TruncateKeyFile, WriteKeyFile, KeyFileFails, Goto, Exit,
              Shape, ProcessesOK
<1>9. ASSUME NEW b \in Builds, Redeploy(b)
      PROVE  FALSE
  BY <1>1, <1>9 DEF Redeploy
<1>10. ASSUME \/ \E o \in Orders : SignOrder(o)
              \/ EditConfig
              \/ \E k \in Keys : InstallKey(k)
              \/ UNCHANGED vars
       PROVE  pc["broker"] \in Running /\ UNCHANGED <<wallets, pk, rpcConf>> /\ conf'["broker"] = conf["broker"]
  <2>1. UNCHANGED <<pc, memory>>
    BY <1>10 DEF SignOrder, EditConfig, InstallKey, vars
  <2>2. QED
    BY <1>1, <2>1 DEF memory
<1>11. QED
  BY <1>2, <1>3, <1>5, <1>6, <1>7, <1>8, <1>9, <1>10 DEF Next, Run

-----------------------------------------------------------------------------
(* The key                                                                 *)

(* Every step keeps the key in the file or in the broker's memory.         *)
LEMMA KeyStep ==
    ASSUME Shape, KeyOK, [Next]_vars
    PROVE  KeyOK'
<1> USE DEF Service
<1>1. ASSUME UNCHANGED <<keyFile, given, disturbed>>,
             \/ pc'["broker"] = pc["broker"] /\ pk' = pk
             \/ pc["broker"] # "truncated" /\ pc'["broker"] \notin {"encrypted", "truncated"}
             \/ disturbed
      PROVE  KeyOK'
  BY <1>1 DEF KeyOK
<1>2. ASSUME NEW p \in Service, Exit(p), UNCHANGED <<keyFile, build, given, disturbed>>,
             p = "broker" => disturbed \/ pc["broker"] # "truncated"
      PROVE  KeyOK'
  BY <1>1, <1>2 DEF Exit, Goto, Forget, Shape, ProcessesOK
<1>3. ASSUME NEW p \in Service, Start(p) \/ Serve(p)
      PROVE  KeyOK'
  BY <1>1, <1>3 DEF Start, Serve, Goto, Shape, ProcessesOK, host, memory, history
<1>4. ASSUME NEW p \in Service, LoadChainConfig(p)
      PROVE  KeyOK'
  <2>1. UNCHANGED <<keyFile, build, given, disturbed>> /\ pc[p] = "chains"
    BY <1>4 DEF LoadChainConfig, host, history
  <2>2. CASE Exit(p)
    BY <1>2, <2>1, <2>2
  <2>3. CASE ~Exit(p)
    BY <1>1, <1>4, <2>1, <2>3 DEF LoadChainConfig, Goto, Shape, ProcessesOK
  <2>4. QED
    BY <2>2, <2>3
<1>5. ASSUME LoadRpcConfig
      PROVE  KeyOK'
  <2>1. UNCHANGED <<keyFile, build, given, disturbed>> /\ pc["broker"] = "rpc"
    BY <1>5 DEF LoadRpcConfig, host, history
  <2>2. CASE Exit("broker")
    BY <1>2, <2>1, <2>2
  <2>3. CASE ~Exit("broker")
    BY <1>1, <1>5, <2>1, <2>3 DEF LoadRpcConfig, Goto, Shape, ProcessesOK
  <2>4. QED
    BY <2>2, <2>3
<1>6. ASSUME ReadKey
      PROVE  KeyOK'
  <2>1. /\ pc["broker"] = "key" /\ UNCHANGED <<keyFile, given, disturbed>>
        /\ \/ keyFile.text = "plain" /\ pk' = keyFile.key /\ pc'["broker"] = "encrypted"
           \/ pc'["broker"] = "pen"
    BY <1>6 DEF ReadKey, KeyIn, Goto, Shape, ProcessesOK, host, history
  <2>2. QED
    BY <2>1 DEF KeyOK
<1>7. ASSUME TruncateKeyFile
      PROVE  KeyOK'
  <2>1. /\ pc["broker"] = "encrypted" /\ pc'["broker"] = "truncated"
        /\ keyFile'.text = "empty" /\ UNCHANGED <<pk, given, disturbed>>
    BY <1>7 DEF TruncateKeyFile, Goto, Shape, ProcessesOK, memory, history, Empty
  <2>2. QED
    BY <2>1 DEF KeyOK
<1>8. ASSUME WriteKeyFile
      PROVE  KeyOK'
  <2>1. /\ pc["broker"] = "truncated" /\ pc'["broker"] = "pen"
        /\ keyFile' = Encrypted(pk, build) /\ UNCHANGED given
        /\ disturbed' = (disturbed \/ build \notin GoodBuilds)
    BY <1>8 DEF WriteKeyFile, Goto, Shape, ProcessesOK
  <2>2. ~disturbed' => keyFile'.text = "cipher" /\ keyFile'.key = pk
    BY <2>1 DEF Encrypted, Cipher
  <2>3. ~disturbed' => pk = given
    BY <2>1 DEF KeyOK
  <2>4. QED
    BY <2>1, <2>2, <2>3 DEF KeyOK
<1>9. ASSUME CreatePen
      PROVE  KeyOK'
  <2>1. UNCHANGED <<keyFile, build, given, disturbed>> /\ pc["broker"] = "pen"
    BY <1>9 DEF CreatePen, host, history
  <2>2. CASE Exit("broker")
    BY <1>2, <2>1, <2>2
  <2>3. CASE ~Exit("broker")
    BY <1>1, <1>9, <2>1, <2>3 DEF CreatePen, Goto, Shape, ProcessesOK
  <2>4. QED
    BY <2>2, <2>3
<1>10. ASSUME NEW p \in Service, Crash(p)
       PROVE  KeyOK'
  <2>1. /\ Exit(p) /\ UNCHANGED <<keyFile, build, given>>
        /\ disturbed' = (disturbed \/ (p = "broker" /\ pc[p] = "truncated"))
    BY <1>10 DEF Crash, host
  <2>2. CASE disturbed'
    BY <2>2 DEF KeyOK
  <2>3. CASE ~disturbed'
    <3>1. UNCHANGED disturbed /\ (p = "broker" => pc["broker"] # "truncated")
      BY <2>1, <2>3 DEF Shape, TypeOK
    <3>2. QED
      BY <1>2, <2>1, <3>1
  <2>4. QED
    BY <2>2, <2>3
<1>11. ASSUME KeyFileFails
       PROVE  KeyOK'
  <2>1. /\ pc["broker"] \in {"encrypted", "truncated"} /\ pc'["broker"] = "pen"
        /\ disturbed' = (disturbed \/ pc["broker"] = "truncated")
        /\ UNCHANGED <<keyFile, given>>
    BY <1>11 DEF KeyFileFails, Goto, Shape, ProcessesOK, host
  <2>2. QED
    BY <2>1 DEF KeyOK
<1>12. ASSUME NEW o \in Orders, SignOrder(o)
       PROVE  KeyOK'
  BY <1>1, <1>12 DEF SignOrder, host, memory
<1>13. ASSUME EditConfig
       PROVE  KeyOK'
  BY <1>1, <1>13 DEF EditConfig, memory
<1>14. ASSUME NEW k \in Keys, InstallKey(k)
       PROVE  KeyOK'
  <2>1. /\ keyFile'.text = "plain" /\ keyFile'.key = k /\ given' = k /\ UNCHANGED pc
        /\ disturbed' = (pc["broker"] \in {"encrypted", "truncated"})
    BY <1>14 DEF InstallKey, Plain
  <2>2. QED
    BY <2>1 DEF KeyOK
<1>15. ASSUME NEW b \in Builds, Redeploy(b)
       PROVE  KeyOK'
  <2>1. /\ disturbed' = (disturbed \/ pc["broker"] = "truncated")
        /\ pc'["broker"] = "off" /\ UNCHANGED <<keyFile, given>>
    BY <1>15 DEF Redeploy
  <2>2. QED
    BY <2>1 DEF KeyOK
<1>16. ASSUME UNCHANGED vars
       PROVE  KeyOK'
  BY <1>1, <1>16 DEF vars, host, memory, history
<1>17. QED
  BY <1>3, <1>4, <1>5, <1>6, <1>7, <1>8, <1>9, <1>10, <1>11, <1>12, <1>13, <1>14, <1>15, <1>16
     DEF Next, Run
-----------------------------------------------------------------------------
(* Chains                                                                  *)

(* A step that starts, ends or runs processes and keeps the file and what  *)
(* was signed: the chains still agree if each process has what it had, or  *)
(* is not past "chains", or has just loaded the file.                      *)
LEMMA AgreeFrame ==
    ASSUME Shape, ChainsAgree, UNCHANGED <<chainFile, version, signed>>,
           \A p \in Service :
              \/ ~HasChains(p)'
              \/ HasChains(p) /\ conf'[p] = conf[p] /\ loaded'[p] = loaded[p]
              \/ conf'[p] = ChainConfig(chainFile) /\ loaded'[p] = version
    PROVE  ChainsAgree'
<1>1. \A p \in Service : HasChains(p)' /\ loaded'[p] = version => conf'[p] = ChainConfig(chainFile)
  BY DEF ChainsAgree
<1>2. \A p, q \in Service : HasChains(p)' /\ HasChains(q)' /\ loaded'[p] = loaded'[q] => conf'[p] = conf'[q]
  BY <1>1 DEF ChainsAgree
<1>3. \A s \in signed : \A p \in Service : HasChains(p)' /\ loaded'[p] = s.version =>
          s.chain \in DOMAIN conf'[p]
  BY <1>1 DEF ChainsAgree
<1>4. QED
  <2>1. ChainConfig(chainFile)' = ChainConfig(chainFile)
    BY DEF ChainConfig, Listed
  <2>2. QED
    BY <1>1, <1>2, <1>3, <2>1, Zenon DEF ChainsAgree

(* A process that ends is no longer past "chains"; the other one goes on.  *)
LEMMA AgreeExit ==
    ASSUME Shape, ChainsAgree, UNCHANGED <<chainFile, version, signed>>,
           NEW p \in Service, Exit(p)
    PROVE  ChainsAgree'
<1>1. \A q \in Service :
         \/ ~HasChains(q)'
         \/ HasChains(q) /\ conf'[q] = conf[q] /\ loaded'[q] = loaded[q]
  <2>1. ~HasChains(p)'
    BY DEF Exit, Goto, Shape, ProcessesOK, HasChains
  <2>2. ASSUME NEW q \in Service, q # p
        PROVE  pc'[q] = pc[q] /\ conf'[q] = conf[q] /\ loaded'[q] = loaded[q]
    BY <2>2 DEF Exit, Goto, Forget, Shape, TypeOK, ProcessesOK
  <2>3. QED
    BY <2>1, <2>2 DEF HasChains
<1>2. QED
  BY <1>1, AgreeFrame

(* A step of a process that goes on with the chains it has.                *)
LEMMA AgreeRuns ==
    ASSUME Shape, ChainsAgree, UNCHANGED <<chainFile, version, signed, conf, loaded>>,
           \A q \in Service : HasChains(q)' => HasChains(q)
    PROVE  ChainsAgree'
BY AgreeFrame

(* Every step keeps versions and chains in agreement.                      *)
LEMMA AgreeStep ==
    ASSUME Shape, ChainsAgree, [Next]_vars
    PROVE  ChainsAgree'
<1> USE DEF Service
<1>1. ASSUME NEW p \in Service, Start(p) \/ Serve(p)
      PROVE  ChainsAgree'
  BY <1>1, AgreeRuns DEF Start, Serve, Goto, Shape, ProcessesOK, HasChains, host, memory, history
<1>2. ASSUME NEW p \in Service, LoadChainConfig(p)
      PROVE  ChainsAgree'
  <2>1. UNCHANGED <<chainFile, version, signed>>
    BY <1>2 DEF LoadChainConfig, host, history
  <2>2. CASE Exit(p)
    BY <2>1, <2>2, AgreeExit
  <2>3. CASE ~Exit(p)
    <3>1. /\ pc' = [pc EXCEPT ![p] = IF p = "broker" THEN "rpc" ELSE "redis"]
          /\ conf' = [conf EXCEPT ![p] = ChainConfig(chainFile)]
          /\ loaded' = [loaded EXCEPT ![p] = version]
      BY <1>2, <2>3 DEF LoadChainConfig, Goto
    <3>2. \A q \in Service :
             \/ ~HasChains(q)'
             \/ HasChains(q) /\ conf'[q] = conf[q] /\ loaded'[q] = loaded[q]
             \/ conf'[q] = ChainConfig(chainFile) /\ loaded'[q] = version
      BY <3>1 DEF Shape, TypeOK, ProcessesOK, HasChains
    <3>3. QED
      BY <2>1, <3>2, AgreeFrame
  <2>4. QED
    BY <2>2, <2>3
<1>3. ASSUME LoadRpcConfig
      PROVE  ChainsAgree'
  <2>1. UNCHANGED <<chainFile, version, signed>>
    BY <1>3 DEF LoadRpcConfig, host, history
  <2>2. CASE Exit("broker")
    BY <2>1, <2>2, AgreeExit
  <2>3. CASE ~Exit("broker")
    BY <1>3, <2>1, <2>3, AgreeRuns DEF LoadRpcConfig, Goto, Shape, ProcessesOK, HasChains
  <2>4. QED
    BY <2>2, <2>3
<1>4. ASSUME ReadKey \/ TruncateKeyFile \/ WriteKeyFile
      PROVE  ChainsAgree'
  <2>1. UNCHANGED <<chainFile, version, signed, conf, loaded>>
    BY <1>4 DEF ReadKey, TruncateKeyFile, WriteKeyFile, host, memory, history
  <2>2. \A q \in Service : HasChains(q)' => HasChains(q)
    BY <1>4 DEF ReadKey, TruncateKeyFile, WriteKeyFile, Goto, Shape, ProcessesOK, HasChains
  <2>3. QED
    BY <2>1, <2>2, AgreeRuns
<1>5. ASSUME CreatePen
      PROVE  ChainsAgree'
  <2>1. UNCHANGED <<chainFile, version, signed>>
    BY <1>5 DEF CreatePen, host, history
  <2>2. CASE Exit("broker")
    BY <2>1, <2>2, AgreeExit
  <2>3. CASE ~Exit("broker")
    BY <1>5, <2>1, <2>3, AgreeRuns DEF CreatePen, Goto, Shape, ProcessesOK, HasChains
  <2>4. QED
    BY <2>2, <2>3
<1>6. ASSUME NEW p \in Service, Crash(p)
      PROVE  ChainsAgree'
  BY <1>6, AgreeExit DEF Crash, host
<1>7. ASSUME KeyFileFails
      PROVE  ChainsAgree'
  BY <1>7, AgreeRuns DEF KeyFileFails, Goto, Shape, ProcessesOK, HasChains, host, memory
<1>8. ASSUME NEW o \in Orders, SignOrder(o)
      PROVE  ChainsAgree'
  <2> DEFINE s == [perp |-> o.perp, chain |-> o.chain, key |-> wallets[o.chain],
                   version |-> loaded["broker"]]
  <2>1. signed' = signed \cup {s} /\ UNCHANGED <<chainFile, version, conf, loaded, pc>>
    BY <1>8 DEF SignOrder, host, memory
  <2>2. pc["broker"] = "serving" /\ o.chain \in DOMAIN conf["broker"]
    BY <1>8 DEF SignOrder
  <2>3. /\ s.perp \in Int
        /\ s.version \in Nat /\ s.version <= version
        /\ s.version = version => s.chain \in DOMAIN ChainConfig(chainFile)
        /\ \A p \in Service : HasChains(p) /\ loaded[p] = s.version => s.chain \in DOMAIN conf[p]
    <3>1. o.perp \in Int /\ loaded["broker"] \in Nat /\ loaded["broker"] <= version
      BY ConstantsOK DEF Shape, TypeOK, VersionsOK
    <3>2. HasChains("broker")
      BY <2>2 DEF HasChains
    <3>3. loaded["broker"] = version => conf["broker"] = ChainConfig(chainFile)
      BY <3>2 DEF ChainsAgree
    <3>4. \A p \in Service : HasChains(p) /\ loaded[p] = loaded["broker"] => conf[p] = conf["broker"]
      BY <3>2 DEF ChainsAgree
    <3>5. QED
      BY <2>2, <3>1, <3>3, <3>4
  <2> HIDE DEF s
  <2>4. \A p \in Service : HasChains(p)' <=> HasChains(p)
    BY <2>1 DEF HasChains
  <2>5. ChainConfig(chainFile)' = ChainConfig(chainFile)
    BY <2>1 DEF ChainConfig, Listed
  <2>6. QED
    BY <2>1, <2>3, <2>4, <2>5 DEF ChainsAgree
<1>9. ASSUME EditConfig
      PROVE  ChainsAgree'
  <2>1. UNCHANGED <<conf, loaded, pc, signed>>
    BY <1>9 DEF EditConfig, memory
  <2>2. CASE UNCHANGED <<chainFile, version>>
    BY <2>1, <2>2, AgreeRuns DEF HasChains
  <2>3. CASE version' = version + 1
    <3>1. \A p \in Service : loaded[p] # version'
      BY <2>3, ConstantsOK DEF Shape, TypeOK, VersionsOK
    <3>2. \A s \in signed : s.version \in Nat /\ s.version <= version' /\ s.version # version'
      BY <2>3, ConstantsOK DEF Shape, TypeOK, ChainsAgree
    <3>3. \A p \in Service : HasChains(p)' <=> HasChains(p)
      BY <2>1 DEF HasChains
    <3>4. QED
      BY <2>1, <3>1, <3>2, <3>3 DEF ChainsAgree
  <2>4. QED
    BY <1>9, <2>2, <2>3 DEF EditConfig
<1>10. ASSUME NEW k \in Keys, InstallKey(k)
       PROVE  ChainsAgree'
  BY <1>10, AgreeRuns DEF InstallKey, HasChains, memory
<1>11. ASSUME NEW b \in Builds, Redeploy(b)
       PROVE  ChainsAgree'
  BY <1>11, AgreeFrame DEF Redeploy, HasChains
<1>12. ASSUME UNCHANGED vars
       PROVE  ChainsAgree'
  BY <1>12, AgreeRuns DEF vars, HasChains, host, memory, history
<1>13. QED
  BY <1>1, <1>2, <1>3, <1>4, <1>5, <1>6, <1>7, <1>8, <1>9, <1>10, <1>11, <1>12 DEF Next, Run

-----------------------------------------------------------------------------
(* Theorems                                                                *)

(* The inductive invariant.                                                *)
LEMMA DeploymentInvariant == Spec => []DeploymentInv
<1>1. Init => DeploymentInv
  <2> SUFFICES ASSUME Init
               PROVE  DeploymentInv
    OBVIOUS
  <2>1. Shape
    BY ShapeInit
  <2>2. PenOK
    BY DEF Init, PenOK, Running, Service
  <2>3. KeyOK
    BY DEF Init, KeyOK, KeyIn, Decrypted, Missing, Plain, Service
  <2>4. ChainsAgree
    BY DEF Init, ChainsAgree, HasChains, Service
  <2>5. QED
    BY <2>1, <2>2, <2>3, <2>4 DEF DeploymentInv
<1>2. DeploymentInv /\ [Next]_vars => DeploymentInv'
  BY ShapeStep, PenStep, KeyStep, AgreeStep DEF DeploymentInv
<1>3. QED
  BY <1>1, <1>2, PTL DEF Spec

(* Every variable has its type; a process has only loaded chains that the  *)
(* SDK knows and that have an executor, and every signature is made with a *)
(* valid key.                                                              *)
THEOREM TypeCorrect == Spec => []TypeOK
<1>1. DeploymentInv => TypeOK
  BY DEF DeploymentInv, Shape
<1>2. QED
  BY <1>1, DeploymentInvariant, PTL

(* A broker that serves has one wallet for each of its chains, all with    *)
(* the one key, and an url to dial.                                        *)
THEOREM Complete == Spec => []ServedIsComplete
<1>1. DeploymentInv => ServedIsComplete
  BY DEF DeploymentInv, PenOK, Running, ServedIsComplete, BrokerAddress
<1>2. QED
  BY <1>1, DeploymentInvariant, PTL

(* The operator's key can be read back by the build that encrypted it, and *)
(* before that by any, through restarts and redeployments, unless its      *)
(* rewriting was disturbed.                                                *)
THEOREM Survives == Spec => []KeySurvives
<1>1. ASSUME Shape, KeyOK
      PROVE  KeySurvives
  <2> SUFFICES ASSUME ~disturbed, ~Undecipherable
               PROVE  \/ KeyIn(keyFile, build) = given
                      \/ pc["broker"] = "truncated" /\ pk = given
    BY DEF KeySurvives
  <2>1. /\ keyFile.text \in {"plain", "cipher", "missing", "empty"}
        /\ keyFile.text = "cipher" => keyFile.under \in GoodBuilds
    BY <1>1 DEF Shape, TypeOK, KeyFiles, Missing, Empty, Plain, Cipher
  <2>2. CASE keyFile.text = "plain"
    BY <1>1, <2>2 DEF KeyOK, KeyIn
  <2>3. CASE keyFile.text = "cipher"
    BY <1>1, <2>1, <2>3 DEF KeyOK, KeyIn, Decrypted, Undecipherable
  <2>4. CASE keyFile.text = "missing"
    BY <1>1, <2>4 DEF KeyOK, KeyIn, Decrypted
  <2>5. CASE keyFile.text = "empty"
    BY <1>1, <2>5 DEF KeyOK
  <2>6. QED
    BY <2>1, <2>2, <2>3, <2>4, <2>5
<1>2. QED
  BY <1>1, DeploymentInvariant, PTL DEF DeploymentInv

(* Executors can subscribe to the topic of what the broker signed under the*)
(* same configuration.                                                     *)
THEOREM Accepted == Spec => []SignedTopicIsAccepted
<1>1. DeploymentInv => SignedTopicIsAccepted
  <2> SUFFICES ASSUME DeploymentInv, NEW s \in signed,
                      pc["executorws"] \in {"redis", "serving"},
                      loaded["executorws"] = s.version, s.perp >= 100000
               PROVE  IsValidOrderTopic(s.perp, s.chain)
    BY DEF SignedTopicIsAccepted
  <2>1. s.perp \in Nat /\ s.chain \in Nat
    <3>1. s.perp \in Int
      BY DEF DeploymentInv, ChainsAgree
    <3>2. s.chain \in SdkChains
      BY DEF DeploymentInv, Shape, TypeOK
    <3>3. s.chain \in Nat
      <4>1. \A c \in SdkChains : c \in Nat
        BY ConstantsOK
      <4>2. QED
        BY <3>2, <4>1
    <3>4. s.perp \in Nat
      BY <3>1
    <3>5. QED
      BY <3>3, <3>4
  <2>2. s.chain \in DOMAIN conf["executorws"]
    BY DEF DeploymentInv, ChainsAgree, HasChains, Service
  <2>3. QED
    BY <2>1, <2>2 DEF IsValidOrderTopic
<1>2. QED
  BY <1>1, DeploymentInvariant, PTL
=============================================================================
