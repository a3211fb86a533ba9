------------------------------- MODULE Bootstrap -------------------------------
(***************************************************************************)
(* How the controller gets its CA, join token and admin credentials at     *)
(* boot (cmd/controller, internal/pki), and how agents join with a token   *)
(* and start again with what they stored (internal/client/join.go, the     *)
(* join handler).                                                          *)
(*                                                                         *)
(* CAs, secrets and keys are random, so each is the next number.  A CA     *)
(* stands for its key, its certificate and their fingerprint; a node's     *)
(* certificate is the CA that signed it and the key it is for.  A          *)
(* connection is set up when the agent trusts the CA the controller serves *)
(* with and the controller the one that signed the agent's certificate,    *)
(* and neither the serving nor the agent's certificate has ended.  The     *)
(* CA's ten years do not end.                                              *)
(*                                                                         *)
(* pki.WriteFile writes, syncs and renames a temporary file, which nothing *)
(* ever reads and the next write truncates: a crash leaves the old file or *)
(* the new one, and a write is one step (Backups has the steps).  The      *)
(* -node-id of a data directory stays the same.  Operators copy the token  *)
(* file to nodes or take the token away, and change the -token flag.       *)
(***************************************************************************)
EXTENDS Naturals

CONSTANTS
    Node,        \* machines that run an agent
    None,        \* no file, no value
    MaxFaults    \* bound: crashes, lost files and lost calls

Chosen == 0      \* the secret an operator chooses with the -token flag
Number == Nat
Token == [ca : Number, secret : Number]
Certificate == [ca : Number, key : Number]
Maybe(S) == S \cup {None}

ASSUME BootstrapAssumption ==
    /\ None \notin Number \cup Token \cup Certificate
    /\ MaxFaults \in Nat

VARIABLES
    pc,          \* what the controller process does next
    ca, secret,  \* what it holds in memory
    serverCert,  \* its serving certificate, none before it serves
    caKey, caCert, tokenFile, adminFile,   \* its files: ca.key, ca.crt, token, admin.conf
    flag,        \* the -token flag
    drawn,       \* how many random values were drawn
    agent,       \* node -> what its agent process does next
    held,        \* node -> the CA and the certificate the process holds
    token,       \* node -> K8_TOKEN in its agent.env
    nodeCA, nodeKey, nodeCert,             \* node -> its files: ca.crt, node.key, node.crt
    age,         \* node -> age of its certificate
    faults

memory == <<pc, ca, secret, serverCert>>
files == <<caKey, caCert, tokenFile, adminFile>>
nodeFiles == <<nodeCA, nodeKey, nodeCert>>
vars == <<memory, files, flag, drawn, agent, held, token, nodeFiles, age, faults>>

BootSteps == {"loadCA", "writeCert", "loadToken", "writeAdmin"}
JoinSteps == {"fetchCA", "readKey", "request", "writeCA", "writeCert"}
Nothing == [ca |-> None, cert |-> None]

Fault == faults < MaxFaults /\ faults' = faults + 1

Init ==
    /\ pc = "down" /\ ca = None /\ secret = None /\ serverCert = "none"
    /\ caKey = None /\ caCert = None /\ tokenFile = None /\ adminFile = None
    /\ flag \in {None, Chosen}
    /\ drawn = 0
    /\ agent = [n \in Node |-> "off"] /\ held = [n \in Node |-> Nothing]
    /\ token = [n \in Node |-> None]
    /\ nodeCA = [n \in Node |-> None] /\ nodeKey = [n \in Node |-> None]
    /\ nodeCert = [n \in Node |-> None]
    /\ age = [n \in Node |-> "fresh"]
    /\ faults = 0

--------------------------------------------------------------------------------
(* The controller boots *)

Exits == pc' = "down" /\ ca' = None /\ secret' = None /\ serverCert' = "none"

\* The supervisor starts the process; the database is opened first (Backups).
Start ==
    /\ pc = "down"
    /\ pc' = "loadCA"
    /\ UNCHANGED <<ca, secret, serverCert, files, flag, drawn, agent, held, token, nodeFiles, age, faults>>

\* Slip: what is left of a CA is replaced.
caAbsentInPart == caKey = None \/ caCert = None

\* Neither file is there: this is the first boot.
caAbsent == caKey = None /\ caCert = None

LoadCA ==
    /\ pc = "loadCA"
    /\ ~ caAbsent /\ caKey # None /\ caCert # None
    /\ ca' = caCert
    /\ pc' = "loadToken"
    /\ UNCHANGED <<secret, serverCert, files, flag, drawn, agent, held, token, nodeFiles, age, faults>>

\* LoadOrCreateCA writes the key first.
CreateCA ==
    /\ pc = "loadCA"
    /\ caAbsent
    /\ drawn' = drawn + 1
    /\ ca' = drawn + 1
    /\ caKey' = drawn + 1
    /\ pc' = "writeCert"
    /\ UNCHANGED <<secret, serverCert, caCert, tokenFile, adminFile, flag, agent, held, token, nodeFiles,
                   age, faults>>

WriteCACert ==
    /\ pc = "writeCert"
    /\ caCert' = ca
    /\ pc' = "loadToken"
    /\ UNCHANGED <<ca, secret, serverCert, caKey, tokenFile, adminFile, flag, drawn, agent, held, token,
                   nodeFiles, age, faults>>

\* The CA is half present: the process refuses to replace it and exits.
RefuseCA ==
    /\ pc = "loadCA"
    /\ ~ caAbsent /\ (caKey = None \/ caCert = None)
    /\ Exits
    /\ UNCHANGED <<files, flag, drawn, agent, held, token, nodeFiles, age, faults>>

\* Slip: the stored token's hash is not looked at.
tokenUsableForAnyCA == flag = None \/ flag = tokenFile.secret

\* Slip: no flag counts as another secret.
tokenUsableWithFlag == tokenFile.ca = ca /\ flag = tokenFile.secret

\* The stored token pins this CA, and a flag, if given, has its secret.
tokenUsable == tokenFile.ca = ca /\ (flag = None \/ flag = tokenFile.secret)

LoadToken ==
    /\ pc = "loadToken"
    /\ tokenFile # None /\ tokenUsable
    /\ secret' = tokenFile.secret
    /\ pc' = "writeAdmin"
    /\ UNCHANGED <<ca, serverCert, files, flag, drawn, agent, held, token, nodeFiles, age, faults>>

CreateToken ==
    /\ pc = "loadToken"
    /\ tokenFile = None
    /\ \/ flag = None /\ secret' = drawn + 1 /\ drawn' = drawn + 1
       \/ flag # None /\ secret' = flag /\ UNCHANGED drawn
    /\ tokenFile' = [ca |-> ca, secret |-> secret']
    /\ pc' = "writeAdmin"
    /\ UNCHANGED <<ca, serverCert, caKey, caCert, adminFile, flag, agent, held, token, nodeFiles, age,
                   faults>>

RefuseToken ==
    /\ pc = "loadToken"
    /\ tokenFile # None /\ ~ tokenUsable
    /\ Exits
    /\ UNCHANGED <<files, flag, drawn, agent, held, token, nodeFiles, age, faults>>

\* ServerCert and writeAdminConfig; then the server listens.  Its certificate is
\* issued by ca, at every boot and at no other time.
WriteAdmin ==
    /\ pc = "writeAdmin"
    /\ serverCert' = "valid"
    /\ adminFile' = ca
    /\ pc' = "serving"
    /\ UNCHANGED <<ca, secret, caKey, caCert, tokenFile, flag, drawn, agent, held, token, nodeFiles,
                   age, faults>>

Serving == pc = "serving"

--------------------------------------------------------------------------------
(* An agent starts: BootstrapNode, then RegisterNode *)

AgentTo(n, from, to) == agent[n] = from /\ agent' = [agent EXCEPT ![n] = to]

Exit(n) ==
    /\ agent' = [agent EXCEPT ![n] = "off"]
    /\ held' = [held EXCEPT ![n] = Nothing]

\* loadNodeCredentials accepts what is stored: all there, a key pair, and not about
\* to expire.
credentialsUsable(n) ==
    /\ nodeCA[n] # None /\ nodeCert[n] # None /\ nodeKey[n] # None
    /\ age[n] = "fresh"
    /\ nodeCert[n].key = nodeKey[n]

\* Slip: the join is tried without a token.
joinsWithoutToken(n) == TRUE

hasToken(n) == token[n] # None

\* With usable credentials on to the first call, otherwise to the join, which
\* needs a token.
StartAgent(n) ==
    /\ \/ /\ credentialsUsable(n)
          /\ AgentTo(n, "off", "register")
          /\ held' = [held EXCEPT ![n] = [ca |-> nodeCA[n], cert |-> nodeCert[n]]]
       \/ /\ ~ credentialsUsable(n) /\ hasToken(n)
          /\ AgentTo(n, "off", "fetchCA")
          /\ UNCHANGED held
    /\ UNCHANGED <<memory, files, flag, drawn, token, nodeFiles, age, faults>>

\* The CA that handleCACerts serves has the hash the token pins.
isPinnedCA(n) == ca = token[n].ca

fetchPinnedCA(n) ==
    /\ token[n] # None /\ Serving /\ isPinnedCA(n)
    /\ AgentTo(n, "fetchCA", "readKey")
    /\ held' = [held EXCEPT ![n].ca = ca]
    /\ UNCHANGED <<memory, files, flag, drawn, token, nodeFiles, age, faults>>

\* A key that is there is used again.
ReadKey(n) ==
    /\ AgentTo(n, "readKey", "request")
    /\ \/ nodeKey[n] # None /\ UNCHANGED <<nodeKey, drawn>>
       \/ /\ nodeKey[n] = None
          /\ nodeKey' = [nodeKey EXCEPT ![n] = drawn + 1]
          /\ drawn' = drawn + 1
    /\ UNCHANGED <<memory, files, flag, held, token, nodeCA, nodeCert, age, faults>>

\* Slip: the secret is the flag's, not the stored token's.
handleJoinWithFlag(n) == token[n] # None /\ token[n].secret = flag

\* handleJoin: the right secret buys a certificate for the key.
handleJoin(n) == token[n] # None /\ token[n].secret = secret

\* The certificate binds the request's key; this CA signs it.
SignNodeCSR(n) == [ca |-> ca, key |-> nodeKey[n]]

\* The CA in the agent's pool is the one the server's certificate is from, and that
\* certificate has not ended.
trustsServer(n) == held[n].ca = ca /\ serverCert = "valid"

requestNodeCert(n) ==
    /\ Serving /\ trustsServer(n)
    /\ handleJoin(n)
    /\ AgentTo(n, "request", "writeCA")
    /\ held' = [held EXCEPT ![n].cert = SignNodeCSR(n)]
    /\ UNCHANGED <<memory, files, flag, drawn, token, nodeFiles, age, faults>>

\* Slip: a CA that is stored already is kept.
WriteNodeCAOnce(n) ==
    /\ AgentTo(n, "writeCA", "writeCert")
    /\ nodeCA' = [nodeCA EXCEPT ![n] = IF @ = None THEN held[n].ca ELSE @]
    /\ UNCHANGED <<memory, files, flag, drawn, held, token, nodeKey, nodeCert, age, faults>>

WriteNodeCA(n) ==
    /\ AgentTo(n, "writeCA", "writeCert")
    /\ nodeCA' = [nodeCA EXCEPT ![n] = held[n].ca]
    /\ UNCHANGED <<memory, files, flag, drawn, held, token, nodeKey, nodeCert, age, faults>>

WriteNodeCert(n) ==
    /\ AgentTo(n, "writeCert", "register")
    /\ nodeCert' = [nodeCert EXCEPT ![n] = held[n].cert]
    /\ age' = [age EXCEPT ![n] = "fresh"]
    /\ UNCHANGED <<memory, files, flag, drawn, held, token, nodeCA, nodeKey, faults>>

\* Agent and controller accept each other's certificates (adminOnly, nodeOnly).
Accepted(n) ==
    /\ Serving /\ trustsServer(n)
    /\ held[n].cert # None /\ held[n].cert.ca = ca
    /\ age[n] # "expired"

Register(n) ==
    /\ Accepted(n)
    /\ AgentTo(n, "register", "running")
    /\ UNCHANGED <<memory, files, flag, drawn, held, token, nodeFiles, age, faults>>

\* A call on the way is refused or gets no answer, and the process exits.
JoinFails(n) ==
    /\ \/ agent[n] = "fetchCA" /\ ~ (token[n] # None /\ Serving /\ isPinnedCA(n))
       \/ agent[n] = "request" /\ ~ (Serving /\ trustsServer(n) /\ handleJoin(n))
       \/ agent[n] = "register" /\ ~ Accepted(n)
    /\ Exit(n)
    /\ UNCHANGED <<memory, files, flag, drawn, token, nodeFiles, age, faults>>

--------------------------------------------------------------------------------
(* Operators, time and faults *)

\* The token is copied from the controller's file, or removed; the agent reads it
\* when it starts.
GiveToken(n) ==
    /\ agent[n] \notin JoinSteps
    /\ token' \in {[token EXCEPT ![n] = tokenFile], [token EXCEPT ![n] = None]}
    /\ token' # token
    /\ UNCHANGED <<memory, files, flag, drawn, agent, held, nodeFiles, age, faults>>

SetFlag ==
    /\ pc = "down"
    /\ flag' \in {None, Chosen} \ {flag}
    /\ UNCHANGED <<memory, files, drawn, agent, held, token, nodeFiles, age, faults>>

\* Time goes by: within renewBefore of its end, then past it.
Age(n) ==
    /\ nodeCert[n] # None /\ age[n] # "expired"
    /\ age' = [age EXCEPT ![n] = IF age[n] = "fresh" THEN "expiring" ELSE "expired"]
    /\ UNCHANGED <<memory, files, flag, drawn, agent, held, token, nodeFiles, faults>>

\* The controller has served for leafValidity since its last boot.
ServerCertEnds ==
    /\ serverCert = "valid"
    /\ serverCert' = "ended"
    /\ UNCHANGED <<pc, ca, secret, files, flag, drawn, agent, held, token, nodeFiles, age, faults>>

ControllerCrash ==
    /\ pc # "down"
    /\ Exits
    /\ Fault
    /\ UNCHANGED <<files, flag, drawn, agent, held, token, nodeFiles, age>>

AgentCrash(n) ==
    /\ agent[n] # "off"
    /\ Exit(n)
    /\ Fault
    /\ UNCHANGED <<memory, files, flag, drawn, token, nodeFiles, age>>

\* The data directory, or the CA's part of it, is lost; backups hold the database only.
LoseDataDir ==
    /\ pc = "down"
    /\ caKey' = None /\ caCert' = None
    /\ \/ tokenFile' = None /\ adminFile' = None
       \/ UNCHANGED <<tokenFile, adminFile>>
    /\ Fault
    /\ UNCHANGED <<memory, flag, drawn, agent, held, token, nodeFiles, age>>

LoseNodeDir(n) ==
    /\ agent[n] = "off"
    /\ nodeCA' = [nodeCA EXCEPT ![n] = None] /\ nodeKey' = [nodeKey EXCEPT ![n] = None]
    /\ nodeCert' = [nodeCert EXCEPT ![n] = None]
    /\ Fault
    /\ UNCHANGED <<memory, files, flag, drawn, agent, held, token, age>>

--------------------------------------------------------------------------------
BootStep ==
    \/ Start \/ LoadCA \/ CreateCA \/ WriteCACert \/ RefuseCA
    \/ LoadToken \/ CreateToken \/ RefuseToken \/ WriteAdmin

AgentStep(n) ==
    \/ StartAgent(n) \/ fetchPinnedCA(n) \/ ReadKey(n) \/ requestNodeCert(n)
    \/ WriteNodeCA(n) \/ WriteNodeCert(n) \/ Register(n) \/ JoinFails(n)

Outside ==
    \/ SetFlag \/ ServerCertEnds \/ ControllerCrash \/ LoseDataDir
    \/ \E n \in Node : GiveToken(n) \/ Age(n) \/ AgentCrash(n) \/ LoseNodeDir(n)

Next == BootStep \/ Outside \/ \E n \in Node : AgentStep(n)

\* Supervisors restart both processes (Restart=always), and these go on.
Spec == Init /\ [][Next]_vars /\ WF_vars(BootStep) /\ \A n \in Node : WF_vars(AgentStep(n))

--------------------------------------------------------------------------------
(* Properties *)

\* Files and memory hold values of their types; a controller that is down holds
\* nothing, only one that serves has a serving certificate, and a joining agent has
\* a token.
TypeOK ==
    /\ pc \in {"down", "serving"} \cup BootSteps
    /\ ca \in Maybe(Number) /\ secret \in Maybe(Number)
    /\ caKey \in Maybe(Number) /\ caCert \in Maybe(Number) /\ adminFile \in Maybe(Number)
    /\ tokenFile \in Maybe(Token) /\ flag \in {None, Chosen}
    /\ pc \in {"down", "loadCA"} => ca = None
    /\ serverCert \in {"none", "valid", "ended"} /\ (serverCert # "none" <=> pc = "serving")
    /\ drawn \in Nat
    /\ agent \in [Node -> {"off", "register", "running"} \cup JoinSteps]
    /\ held \in [Node -> [ca : Maybe(Number), cert : Maybe(Certificate)]]
    /\ token \in [Node -> Maybe(Token)]
    /\ \A n \in Node : agent[n] \in JoinSteps => token[n] # None
    /\ nodeCA \in [Node -> Maybe(Number)] /\ nodeKey \in [Node -> Maybe(Number)]
    /\ nodeCert \in [Node -> Maybe(Certificate)]
    /\ age \in [Node -> {"fresh", "expiring", "expired"}]
    /\ faults \in 0 .. MaxFaults

\* The controller serves with the CA and the secret that its files hold, and its
\* token and admin.conf are for that CA, whatever an earlier boot left undone and
\* whichever files were lost: who is given the token file can join, and k8ctl works.
ServesWhatItStores ==
    Serving =>
        /\ caKey = ca /\ caCert = ca /\ adminFile = ca
        /\ tokenFile = [ca |-> ca, secret |-> secret]

KeepsCA ==
    /\ caKey' \in {caKey, None} \/ caKey = None
    /\ caCert' \in {caCert, None} \/ caCert = None

\* The CA must never change once created (LoadOrCreateCA): no boot writes over a
\* key or a certificate, the ones a crash half way through the first boot left
\* included.
CANeverChanges == [][KeepsCA]_vars

\* What an agent finds on disk and starts with belongs together: the certificate was
\* issued by the CA it trusts, although the CA, the key and the certificate are
\* written one by one, with crashes, renewals and other CAs in between.
CredentialsAgree ==
    \A n \in Node : credentialsUsable(n) => nodeCert[n].ca = nodeCA[n]

\* What makes a boot exit: half a CA, a token for another CA, a flag with another secret.
Refuses ==
    \/ (caKey = None) # (caCert = None)
    \/ /\ tokenFile # None
       /\ tokenFile.ca # caCert \/ flag \notin {None, tokenFile.secret}

\* Once faults cease the controller serves, unless the files it was left with are
\* of the three kinds a boot refuses.
ControllerBoots == <>[](~ Refuses) => <>[]Serving

\* The certificates on both sides are valid, and the agent's process, its stored
\* credentials or, where those are missing, of another key or to be renewed, its
\* token is good for this controller.
Welcome(n) ==
    /\ serverCert = "valid" /\ age[n] # "expired"
    /\ agent[n] = "running" => Accepted(n)
    /\ IF credentialsUsable(n) THEN nodeCert[n].ca = ca ELSE token[n] = tokenFile

\* A node with a current token joins, a node that has joined starts again without
\* one, and one whose certificate is about to expire gets another for its token,
\* from whatever its earlier attempts have left on disk.  All of them work again
\* with a controller that was restarted because its serving certificate had ended.
NodesJoin == \A n \in Node : <>[]Welcome(n) => <>[]Accepted(n)

\* A controller whose disk was lost comes back (RestoreIfMissing) and its cluster
\* with it: nodes that are given its token get to work with it.
NodesReturn ==
    \A n \in Node :
        <>[](serverCert = "valid" /\ token[n] = tokenFile /\ age[n] = "fresh") => <>[]Accepted(n)
================================================================================
