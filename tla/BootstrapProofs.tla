---------------------------- MODULE BootstrapProofs ----------------------------
(***************************************************************************)
(* The boot files and the nodes' credentials stay consistent, for every    *)
(* set of nodes and every number of crashes and lost directories.          *)
(*                                                                         *)
(* The properties depend on the order in which files are written, so the   *)
(* inductive invariant says what holds at each step: of the controller's   *)
(* boot (Booted) and of each agent's join (Joining).  Joining rests on     *)
(* keys being new: a certificate on disk is for no key that is yet to be   *)
(* drawn.                                                                  *)
(***************************************************************************)
EXTENDS Bootstrap, TLAPS

\* What a boot has in hand at each step.  A complete CA is one pair.
Booted ==
    /\ caKey # None /\ caCert # None => caKey = caCert
    /\ pc \in {"writeCert", "loadToken", "writeAdmin", "serving"} => ca \in Nat /\ caKey = ca
    /\ pc \in {"loadToken", "writeAdmin", "serving"} => caCert = ca
    /\ pc \in {"writeAdmin", "serving"} =>
          secret \in Nat /\ tokenFile = [ca |-> ca, secret |-> secret]
    /\ pc = "serving" => adminFile = ca

\* What an agent has in hand at each step of its join.  What was on its disk when
\* it began was of no use, and the certificate is written after the CA.
Joining(n) ==
    /\ agent[n] \in JoinSteps => ~ credentialsUsable(n)
    /\ agent[n] \in JoinSteps \ {"fetchCA"} => held[n].ca \in Nat
    /\ agent[n] \in {"request", "writeCA", "writeCert"} => nodeKey[n] \in Nat
    /\ agent[n] \in {"writeCA", "writeCert"} =>
          held[n].cert \in Certificate /\ held[n].cert.ca = held[n].ca
    /\ agent[n] = "writeCert" => nodeCA[n] = held[n].ca
    /\ nodeCert[n] # None => nodeCA[n] # None /\ nodeCert[n].key <= drawn
    /\ held[n].cert # None => held[n].cert.key <= drawn
    /\ nodeKey[n] # None => nodeKey[n] <= drawn
    /\ credentialsUsable(n) => nodeCert[n].ca = nodeCA[n]

Consistent == TypeOK /\ Booted /\ \A n \in Node : Joining(n)

\* Values are numbers or absent, never both.
LEMMA Values ==
    /\ None \notin Nat /\ None \notin Number /\ Chosen \in Nat
    /\ None \notin Token /\ None \notin Certificate
BY BootstrapAssumption DEF Number, Chosen, Token, Certificate

--------------------------------------------------------------------------------
(* The controller's steps *)

\* The agents' side of Consistent depends on the controller's only through what
\* has been drawn.
LEMMA NodesApart ==
    ASSUME TypeOK, NEW n \in Node, Joining(n), drawn' \in Nat, drawn' >= drawn,
           UNCHANGED <<agent, held, nodeFiles, age>>
    PROVE  Joining(n)'
<1>1. /\ nodeCert[n] # None => nodeCert[n].key \in Nat
      /\ held[n].cert # None => held[n].cert.key \in Nat
      /\ nodeKey[n] # None => nodeKey[n] \in Nat
      /\ drawn \in Nat
  BY DEF TypeOK, Maybe, Number, Certificate
<1>2. UNCHANGED credentialsUsable(n)
  BY DEF nodeFiles, credentialsUsable
<1>. QED BY <1>1, <1>2 DEF Joining, nodeFiles

\* A step of the boot keeps the files together.
LEMMA BootConsistent == Consistent /\ BootStep => Consistent'
<1>. SUFFICES ASSUME Consistent, BootStep PROVE Consistent'
  OBVIOUS
<1>. USE DEF Consistent
<1>1. drawn \in Nat /\ flag \in {None, 0}
  BY DEF TypeOK, Chosen
<1>. DEFINE next == drawn + 1
<1>2. next \in Nat /\ next >= drawn
  BY <1>1
<1>3. /\ drawn' \in {drawn, next}
      /\ UNCHANGED <<agent, held, token, nodeFiles, age, faults, flag>>
  BY DEF BootStep, Start, LoadCA, CreateCA, WriteCACert, RefuseCA, LoadToken, CreateToken,
         RefuseToken, WriteAdmin
<1>4. \A n \in Node : Joining(n)'
  BY <1>1, <1>2, <1>3, NodesApart
<1>5. UNCHANGED <<agent, held, token, nodeCA, nodeKey, nodeCert, age, faults, flag>>
  BY <1>3 DEF nodeFiles
<1>. HIDE DEF next
<1>. USE Values DEF TypeOK, Booted, BootSteps, Maybe, Number, files
<1>6. CASE Start \/ RefuseCA \/ RefuseToken
  BY <1>4, <1>5, <1>6 DEF Start, RefuseCA, RefuseToken, Exits
<1>7. CASE LoadCA
  BY <1>4, <1>5, <1>7 DEF LoadCA
<1>8. CASE CreateCA
  BY <1>2, <1>4, <1>5, <1>8 DEF CreateCA, caAbsent, next
<1>9. CASE WriteCACert
  BY <1>4, <1>5, <1>9 DEF WriteCACert
<1>10. CASE LoadToken
  <2>1. tokenFile \in Token /\ tokenFile.ca = ca
    BY <1>10 DEF LoadToken, tokenUsable
  <2>2. tokenFile = [ca |-> ca, secret |-> tokenFile.secret] /\ tokenFile.secret \in Nat
    BY <2>1 DEF Token
  <2>. QED BY <1>4, <1>5, <1>10, <2>2 DEF LoadToken
<1>11. CASE CreateToken
  <2>1. secret' \in Nat /\ drawn' \in Nat /\ ca \in Nat
    BY <1>1, <1>2, <1>11 DEF CreateToken, next
  <2>2. tokenFile' = [ca |-> ca, secret |-> secret'] /\ tokenFile' \in Token
    BY <1>11, <2>1 DEF CreateToken, Token
  <2>. QED BY <1>4, <1>5, <1>11, <2>1, <2>2 DEF CreateToken
<1>12. CASE WriteAdmin
  BY <1>4, <1>5, <1>12 DEF WriteAdmin
<1>. QED BY <1>6, <1>7, <1>8, <1>9, <1>10, <1>11, <1>12 DEF BootStep

--------------------------------------------------------------------------------
(* The agents' steps *)

\* What is not about n is left alone.
Others(n) ==
    \A m \in Node \ {n} :
        /\ agent'[m] = agent[m] /\ held'[m] = held[m] /\ age'[m] = age[m]
        /\ nodeCA'[m] = nodeCA[m] /\ nodeKey'[m] = nodeKey[m] /\ nodeCert'[m] = nodeCert[m]

\* A step of one node leaves the others' joins what they were.
LEMMA OthersJoin ==
    ASSUME Consistent, NEW n \in Node, Others(n), drawn' \in Nat, drawn' >= drawn,
           NEW m \in Node, m # n
    PROVE  Joining(m)'
<1>1. /\ nodeCert[m] # None => nodeCert[m].key \in Nat
      /\ held[m].cert # None => held[m].cert.key \in Nat
      /\ nodeKey[m] # None => nodeKey[m] \in Nat
      /\ drawn \in Nat
  BY DEF Consistent, TypeOK, Maybe, Number, Certificate
<1>2. /\ agent'[m] = agent[m] /\ held'[m] = held[m] /\ age'[m] = age[m]
      /\ nodeCA'[m] = nodeCA[m] /\ nodeKey'[m] = nodeKey[m] /\ nodeCert'[m] = nodeCert[m]
  BY DEF Others
<1>3. UNCHANGED credentialsUsable(m)
  BY <1>2 DEF credentialsUsable
<1>. QED BY <1>1, <1>2, <1>3 DEF Joining, Consistent

\* The controller's side of Consistent does not depend on the agents'.
LEMMA BootedApart == ASSUME Booted, UNCHANGED <<memory, files>> PROVE Booted'
BY DEF Booted, memory, files

\* Each step of BootstrapNode keeps the node's credentials together, the writes of
\* the key, the CA and the certificate included.
LEMMA AgentConsistent ==
    ASSUME Consistent, NEW n \in Node, AgentStep(n)
    PROVE  Consistent'
<1>1. UNCHANGED <<memory, files, flag, token, faults>>
  BY DEF AgentStep, StartAgent, fetchPinnedCA, ReadKey, requestNodeCert, WriteNodeCA, WriteNodeCert,
         Register, JoinFails
<1>2. Booted'
  BY <1>1, BootedApart DEF Consistent
<1>3. SUFFICES TypeOK' /\ Others(n) /\ drawn' \in Nat /\ drawn' >= drawn /\ Joining(n)'
  BY <1>2, OthersJoin DEF Consistent
<1>4. UNCHANGED <<pc, ca, secret, serverCert, caKey, caCert, tokenFile, adminFile, flag, token, faults>>
  BY <1>1 DEF memory, files
<1>5. Joining(n) /\ TypeOK /\ drawn \in Nat
  BY DEF Consistent, TypeOK
<1>. USE Values DEF TypeOK, Others, JoinSteps, Maybe, Number, nodeFiles, AgentTo
<1>6. CASE StartAgent(n)
  <2>1. /\ UNCHANGED <<drawn, nodeCA, nodeKey, nodeCert, age>>
        /\ UNCHANGED credentialsUsable(n)
    BY <1>6 DEF StartAgent, credentialsUsable
  <2>2. CASE credentialsUsable(n)
    <3>1. held' = [held EXCEPT ![n] = [ca |-> nodeCA[n], cert |-> nodeCert[n]]]
      BY <1>6, <2>2 DEF StartAgent
    <3>2. agent' = [agent EXCEPT ![n] = "register"]
      BY <1>6, <2>2 DEF StartAgent
    <3>3. held'[n].cert = nodeCert[n] /\ held'[n].ca = nodeCA[n]
      BY <1>5, <3>1
    <3>. QED BY <1>4, <1>5, <2>1, <3>1, <3>2, <3>3 DEF Joining
  <2>3. CASE ~ credentialsUsable(n)
    <3>1. UNCHANGED held /\ agent' = [agent EXCEPT ![n] = "fetchCA"] /\ token[n] # None
      BY <1>6, <2>3 DEF StartAgent, hasToken
    <3>. QED BY <1>4, <1>5, <2>1, <2>3, <3>1 DEF Joining
  <2>. QED BY <2>2, <2>3
<1>7. CASE fetchPinnedCA(n)
  <2>1. /\ UNCHANGED <<drawn, nodeCA, nodeKey, nodeCert, age>>
        /\ UNCHANGED credentialsUsable(n)
        /\ held' = [held EXCEPT ![n].ca = ca] /\ agent' = [agent EXCEPT ![n] = "readKey"]
        /\ agent[n] = "fetchCA" /\ ca \in Nat
    BY <1>7 DEF fetchPinnedCA, credentialsUsable, Serving, Consistent, Booted
  <2>2. held'[n].ca = ca /\ held'[n].cert = held[n].cert
    BY <1>5, <2>1
  <2>. QED BY <1>4, <1>5, <2>1, <2>2 DEF Joining
<1>8. CASE ReadKey(n)
  <2>1. /\ UNCHANGED <<held, nodeCA, nodeCert, age>> /\ agent[n] = "readKey"
        /\ agent' = [agent EXCEPT ![n] = "request"]
    BY <1>8 DEF ReadKey
  <2>2. CASE nodeKey[n] # None
    <3>1. UNCHANGED <<nodeKey, drawn>> /\ UNCHANGED credentialsUsable(n)
      BY <1>8, <2>1, <2>2 DEF ReadKey, credentialsUsable
    <3>. QED BY <1>4, <1>5, <2>1, <2>2, <3>1 DEF Joining
  <2>3. CASE nodeKey[n] = None
    <3>1. nodeKey' = [nodeKey EXCEPT ![n] = drawn + 1] /\ drawn' = drawn + 1
      BY <1>8, <2>3 DEF ReadKey
    <3>2. nodeKey'[n] = drawn + 1
      BY <1>5, <3>1
    <3>3. nodeCert[n] # None => nodeCert[n].key \in Nat /\ nodeCert[n].key <= drawn
      BY <1>5 DEF Joining, Certificate
    <3>4. held[n].cert # None => held[n].cert.key \in Nat /\ held[n].cert.key <= drawn
      BY <1>5 DEF Joining, Certificate
    <3>5. ~ credentialsUsable(n)'
      BY <1>5, <2>1, <3>2, <3>3 DEF credentialsUsable
    <3>. QED BY <1>4, <1>5, <2>1, <3>1, <3>2, <3>3, <3>4, <3>5 DEF Joining
  <2>. QED BY <2>2, <2>3
<1>9. CASE requestNodeCert(n)
  <2>. DEFINE cert == [ca |-> ca, key |-> nodeKey[n]]
  <2>1. /\ UNCHANGED <<drawn, nodeCA, nodeKey, nodeCert, age>>
        /\ UNCHANGED credentialsUsable(n)
        /\ held' = [held EXCEPT ![n].cert = cert] /\ agent' = [agent EXCEPT ![n] = "writeCA"]
        /\ agent[n] = "request" /\ held[n].ca = ca
    BY <1>9 DEF requestNodeCert, trustsServer, SignNodeCSR, credentialsUsable
  <2>2. ca \in Nat /\ nodeKey[n] \in Nat /\ nodeKey[n] <= drawn
    BY <1>5, <2>1 DEF Joining
  <2>3. cert \in Certificate /\ cert.ca = ca /\ cert.key = nodeKey[n]
    BY <2>2 DEF Certificate
  <2>. HIDE DEF cert
  <2>4. held'[n].cert = cert /\ held'[n].ca = held[n].ca
    BY <1>5, <2>1
  <2>. QED BY <1>4, <1>5, <2>1, <2>2, <2>3, <2>4 DEF Joining
<1>10. CASE WriteNodeCA(n)
  <2>1. /\ UNCHANGED <<drawn, held, nodeKey, nodeCert, age>>
        /\ nodeCA' = [nodeCA EXCEPT ![n] = held[n].ca] /\ agent' = [agent EXCEPT ![n] = "writeCert"]
        /\ agent[n] = "writeCA"
    BY <1>10 DEF WriteNodeCA
  <2>2. nodeCA'[n] = held[n].ca /\ held[n].ca \in Nat
    BY <1>5, <2>1 DEF Joining
  <2>3. ~ credentialsUsable(n)'
    BY <1>5, <2>1, <2>2 DEF credentialsUsable, Joining
  <2>. QED BY <1>4, <1>5, <2>1, <2>2, <2>3 DEF Joining
<1>11. CASE WriteNodeCert(n)
  <2>1. /\ UNCHANGED <<drawn, held, nodeKey, nodeCA>>
        /\ nodeCert' = [nodeCert EXCEPT ![n] = held[n].cert] /\ age' = [age EXCEPT ![n] = "fresh"]
        /\ agent[n] = "writeCert" /\ agent' = [agent EXCEPT ![n] = "register"]
    BY <1>11 DEF WriteNodeCert
  <2>2. /\ nodeCert'[n] = held[n].cert /\ held[n].cert \in Certificate
        /\ held[n].cert.ca = nodeCA[n] /\ nodeCA[n] \in Nat
    BY <1>5, <2>1 DEF Joining
  <2>. QED BY <1>4, <1>5, <2>1, <2>2 DEF Joining
<1>12. CASE Register(n) \/ JoinFails(n)
  <2>1. /\ UNCHANGED <<drawn, nodeCA, nodeKey, nodeCert, age>>
        /\ UNCHANGED credentialsUsable(n)
    BY <1>12 DEF Register, JoinFails, credentialsUsable
  <2>2. CASE Register(n)
    BY <1>4, <1>5, <2>1, <2>2 DEF Register, Joining
  <2>3. CASE JoinFails(n)
    BY <1>4, <1>5, <2>1, <2>3 DEF JoinFails, Exit, Nothing, Joining
  <2>. QED BY <1>12, <2>2, <2>3
<1>. QED BY <1>6, <1>7, <1>8, <1>9, <1>10, <1>11, <1>12 DEF AgentStep

--------------------------------------------------------------------------------
(* Operators, time and faults *)

\* Crashes and lost directories leave nothing that does not belong together.
LEMMA OutsideConsistent == Consistent /\ Outside => Consistent'
<1>. SUFFICES ASSUME Consistent, Outside PROVE Consistent'
  OBVIOUS
<1>1. TypeOK /\ drawn \in Nat /\ Booted /\ \A n \in Node : Joining(n)
  BY DEF Consistent, TypeOK
<1>. USE Values, BootstrapAssumption DEF TypeOK, JoinSteps, Maybe, Number
<1>2. CASE SetFlag \/ ServerCertEnds \/ ControllerCrash \/ LoseDataDir
  <2>1. drawn' = drawn /\ UNCHANGED <<agent, held, nodeFiles, age>>
    BY <1>2 DEF SetFlag, ServerCertEnds, ControllerCrash, LoseDataDir
  <2>2. \A n \in Node : Joining(n)'
    BY <1>1, <2>1, NodesApart
  <2>3. CASE SetFlag
    BY <1>1, <2>2, <2>3 DEF Consistent, SetFlag, memory, files, nodeFiles, Booted
  <2>4. CASE ControllerCrash
    BY <1>1, <2>2, <2>4 DEF Consistent, ControllerCrash, Exits, Fault, files, nodeFiles, Booted
  <2>5. CASE LoseDataDir
    BY <1>1, <2>2, <2>5 DEF Consistent, LoseDataDir, Fault, memory, nodeFiles, Booted
  <2>6. CASE ServerCertEnds
    BY <1>1, <2>2, <2>6 DEF Consistent, ServerCertEnds, files, nodeFiles, Booted
  <2>. QED BY <1>2, <2>3, <2>4, <2>5, <2>6
<1>3. ASSUME NEW n \in Node, GiveToken(n) PROVE Consistent'
  <2>1. UNCHANGED <<memory, files, flag, drawn, agent, held, nodeFiles, age, faults>>
    BY <1>3 DEF GiveToken
  <2>2. \A m \in Node : Joining(m)'
    BY <1>1, <2>1, NodesApart
  <2>3. token' \in [Node -> Maybe(Token)] /\ \A m \in Node \ {n} : token'[m] = token[m]
    BY <1>1, <1>3 DEF GiveToken
  <2>4. agent[n] \notin JoinSteps
    BY <1>3 DEF GiveToken
  <2>. QED BY <1>1, <2>1, <2>2, <2>3, <2>4 DEF Consistent, Booted, memory, files, nodeFiles
<1>4. ASSUME NEW n \in Node, Age(n) \/ AgentCrash(n) \/ LoseNodeDir(n) PROVE Consistent'
  <2>1. UNCHANGED <<memory, files, flag, token, drawn>>
    BY <1>4 DEF Age, AgentCrash, LoseNodeDir
  <2>2. Booted'
    BY <1>1, <2>1, BootedApart
  <2>3. SUFFICES TypeOK' /\ Others(n) /\ Joining(n)'
    BY <1>1, <2>1, <2>2, OthersJoin DEF Consistent
  <2>4. UNCHANGED <<pc, ca, secret, serverCert, caKey, caCert, tokenFile, adminFile, flag, token, drawn>>
    BY <2>1 DEF memory, files
  <2>5. CASE Age(n)
    <3>1. /\ UNCHANGED <<agent, held, nodeCA, nodeKey, nodeCert, faults>>
          /\ age' = [age EXCEPT ![n] = IF age[n] = "fresh" THEN "expiring" ELSE "expired"]
      BY <2>5 DEF Age, nodeFiles
    <3>2. ~ credentialsUsable(n)'
      BY <1>1, <3>1 DEF credentialsUsable
    <3>. QED BY <1>1, <2>4, <3>1, <3>2 DEF Others, Joining
  <2>6. CASE AgentCrash(n)
    <3>1. /\ UNCHANGED <<nodeCA, nodeKey, nodeCert, age>> /\ UNCHANGED credentialsUsable(n)
      BY <2>6 DEF AgentCrash, nodeFiles, credentialsUsable
    <3>. QED BY <1>1, <2>4, <2>6, <3>1 DEF AgentCrash, Exit, Nothing, Fault, Others, Joining
  <2>7. CASE LoseNodeDir(n)
    <3>1. /\ UNCHANGED <<agent, held, age>> /\ agent[n] = "off"
          /\ nodeCA' = [nodeCA EXCEPT ![n] = None] /\ nodeKey' = [nodeKey EXCEPT ![n] = None]
          /\ nodeCert' = [nodeCert EXCEPT ![n] = None]
          /\ faults' \in 0 .. MaxFaults
      BY <1>1, <2>7 DEF LoseNodeDir, Fault
    <3>2. ~ credentialsUsable(n)'
      BY <1>1, <3>1 DEF credentialsUsable
    <3>. QED BY <1>1, <2>4, <3>1, <3>2 DEF Others, Joining
  <2>. QED BY <1>4, <2>5, <2>6, <2>7
<1>. QED BY <1>2, <1>3, <1>4 DEF Outside

--------------------------------------------------------------------------------
(* The theorems *)

\* Nothing is stored or held at first.
LEMMA InitConsistent == Init => Consistent
BY Values, BootstrapAssumption
   DEF Init, Consistent, TypeOK, Booted, Joining, credentialsUsable, Maybe, Number, JoinSteps,
       Nothing, Chosen

\* Consistent is an invariant.
LEMMA AlwaysConsistent == Spec => []Consistent
<1>1. Consistent /\ UNCHANGED vars => Consistent'
  <2>. SUFFICES ASSUME Consistent, UNCHANGED vars PROVE Consistent'
    OBVIOUS
  <2>1. UNCHANGED <<agent, held, nodeFiles, age>> /\ drawn' = drawn /\ drawn \in Nat
    BY DEF vars, Consistent, TypeOK
  <2>2. \A n \in Node : Joining(n)'
    BY <2>1, NodesApart DEF Consistent
  <2>. QED BY <2>2 DEF vars, memory, files, nodeFiles, Consistent, TypeOK, Booted
<1>2. Consistent /\ [Next]_vars => Consistent'
  BY <1>1, BootConsistent, OutsideConsistent, AgentConsistent DEF Next
<1>. QED BY <1>2, InitConsistent, PTL DEF Spec

\* Files and memory hold values of their types, and a joining agent has a token.
THEOREM TypeCorrect == Spec => []TypeOK
<1>1. Consistent => TypeOK
  BY DEF Consistent
<1>. QED BY <1>1, AlwaysConsistent, PTL

\* A controller that serves does so with the CA and the secret of its files, and its
\* token and admin.conf are for that CA (LoadOrCreateCA, LoadOrCreateToken).
THEOREM ServedIsStored == Spec => []ServesWhatItStores
<1>1. Consistent => ServesWhatItStores
  BY DEF Consistent, Booted, ServesWhatItStores, Serving
<1>. QED BY <1>1, AlwaysConsistent, PTL

\* The credentials an agent would start with belong together, wherever the writes of
\* earlier joins were interrupted (BootstrapNode, loadNodeCredentials).
THEOREM StoredCredentialsAgree == Spec => []CredentialsAgree
<1>1. Consistent => CredentialsAgree
  BY DEF Consistent, Joining, CredentialsAgree
<1>. QED BY <1>1, AlwaysConsistent, PTL

\* No boot replaces a CA key or certificate that is there (LoadOrCreateCA).
THEOREM CAStays == Spec => CANeverChanges
<1>1. Consistent /\ [Next]_vars => [KeepsCA]_vars
  <2>. SUFFICES ASSUME Consistent, Next PROVE KeepsCA
    OBVIOUS
  <2>1. CASE CreateCA
    BY <2>1 DEF CreateCA, caAbsent, KeepsCA
  <2>2. CASE WriteCACert
    BY <2>2 DEF WriteCACert, KeepsCA, Consistent, Booted
  <2>3. CASE LoseDataDir
    BY <2>3 DEF LoseDataDir, KeepsCA
  <2>4. ASSUME UNCHANGED <<caKey, caCert>> PROVE KeepsCA
    BY <2>4 DEF KeepsCA
  <2>. QED BY <2>1, <2>2, <2>3, <2>4
           DEF Next, BootStep, Outside, AgentStep, Start, LoadCA, RefuseCA, LoadToken, CreateToken,
               RefuseToken, WriteAdmin, StartAgent, fetchPinnedCA, ReadKey, requestNodeCert,
               WriteNodeCA, WriteNodeCert, Register, JoinFails, GiveToken, SetFlag, ServerCertEnds, Age,
               ControllerCrash, AgentCrash, LoseNodeDir, files
<1>. QED BY <1>1, AlwaysConsistent, PTL DEF Spec, CANeverChanges
================================================================================
