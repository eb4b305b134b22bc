----------------------------- MODULE HostProofs -----------------------------
(***************************************************************************)
(* What a host keeps for its users: the store of an operator, and the      *)
(* registry and runtime generations of a shared host.  The two components  *)
(* share no variable.                                                      *)
(***************************************************************************)
EXTENDS OperatorStore, SharedHost, TLAPS

---------------------------------------------------------------------------
(***************************************************************************)
(* For any number of init commands, secret writers and daemons, and any    *)
(* number of kills between their file operations: the secrets of an        *)
(* operator store survive what is done to its files, and the daemons that  *)
(* serve use the one libp2p key on disk.                                   *)
(*                                                                         *)
(* The processes share no lock, so the invariant says what an init may     *)
(* still rely on at each of its steps.  Its centre is that, as long as two *)
(* inits have not created files at once, a store that holds secrets, is    *)
(* open in a writer, or is used by two inits, opens; and that no step but  *)
(* the unlink of "seckit init sqlite" makes a store that opens stop to.    *)
(***************************************************************************)

BeforeConnect == {"defaults", "registry", "key", "keygen", "connect"}
BeforeProjection == {"schema", "mode", "setmode", "chmod", "identity", "loadidentity",
                     "generate", "forget", "project"}
AfterConnect == BeforeProjection \cup {"checkidentity", "seed", "validate"}
EndedInit == {"done", "failed", "killed"}
InitPcs == {"idle"} \cup BeforeConnect \cup AfterConnect \cup EndedInit
WriterPcs == {"idle", "seal", "insert"} \cup EndedInit
TransportPcs == {"idle", "writekey", "serving"} \cup EndedInit

ProcessRecords ==
    [pc : InitPcs \cup WriterPcs \cup TransportPcs, replace : BOOLEAN, existed : BOOLEAN,
     conn : Made \cup {"absent"}, loaded : Made \cup {"absent", "plain"}]
StoreRecords ==
    [schema : BOOLEAN, mode : Modes \cup {"none"}, nodes : SUBSET Made,
     private : BOOLEAN, rows : SUBSET (Made \cup {"plain"})]

HomeTypes ==
    /\ defaults \in Modes \cup {"absent", "empty"}
    /\ registry \in BOOLEAN
    /\ storageKey \in Made \cup {"absent"}
    /\ identityKey \in Made \cup {"absent"}
    /\ database \in Made \cup {"absent"}
    /\ transportKey \in Made \cup {"absent", "torn"}
    /\ proc \in [Process -> ProcessRecords]
    /\ \A p \in InitProcess : proc[p].pc \in InitPcs
    /\ \A p \in Writer : proc[p].pc \in WriterPcs
    /\ \A p \in TransportUser : proc[p].pc \in TransportPcs
    /\ DOMAIN stores \subseteq Made
    /\ \A i \in DOMAIN stores : stores[i] \in StoreRecords
    /\ database # "absent" => database \in DOMAIN stores
    /\ lastInit \in {"none", "done", "failed", "killed"}
    /\ collided \in BOOLEAN

(* What a process holds is what exists: a file named after an init is only   *)
(* there once the init has connected, an open connection has a file, and     *)
(* only "seckit init sqlite" replaces an identity.                           *)
InitHolds(p) ==
    /\ p \in DOMAIN stores => proc[p].pc \notin {"idle"} \cup BeforeConnect
    /\ proc[p].pc \in AfterConnect => proc[p].conn \in DOMAIN stores
    /\ proc[p].pc \in {"forget", "project"} => proc[p].loaded \in Made
    /\ p \in OperatorInit => ~proc[p].replace

Writing(p) == proc[p].pc \in {"seal", "insert"}

(* A writer has opened a store whose mode was set, and holds what that mode   *)
(* asks for.                                                                  *)
WriterHolds(w) ==
    Writing(w) =>
        /\ proc[w].conn \in DOMAIN stores
        /\ stores[proc[w].conn].mode # "none"
        /\ stores[proc[w].conn].mode = "encrypted" => storageKey # "absent"
        /\ proc[w].pc = "insert" =>
               /\ stores[proc[w].conn].mode = "encrypted" => proc[w].loaded \in Made
               /\ stores[proc[w].conn].mode = "plaintext" => proc[w].loaded = "plain"

(* The rows of a database are of its storage mode.                            *)
RowsFit(i) ==
    stores[i].rows # {} =>
        /\ stores[i].mode = "plaintext" => stores[i].rows = {"plain"}
        /\ stores[i].mode = "encrypted" => "plain" \notin stores[i].rows
        /\ stores[i].mode # "none"

(* A reported success holds until another init begins.                        *)
LastInitOpens == (lastInit = "done" /\ \A p \in InitProcess : ~InProgress(p)) => StoreOpens

(* While no two inits create files at once, each finds what it left: the      *)
(* mode it checked, the missing key or identity it is about to create, the    *)
(* identity it has loaded, and, for "seckit init sqlite", its own new file.   *)
InitRelies(p) ==
    /\ p \in OperatorInit /\ proc[p].pc \in BeforeConnect /\ database # "absent" =>
           stores[database].mode = ModeOf[p]
    /\ p \in SqliteInit /\ proc[p].pc \in BeforeConnect => database = "absent"
    /\ p \in SqliteInit /\ proc[p].pc \in BeforeProjection =>
           proc[p].conn = database /\ stores[database].nodes = {}
    /\ proc[p].pc = "keygen" => storageKey = "absent" /\ ModeOf[p] = "encrypted"
    /\ proc[p].pc = "generate" => identityKey = "absent"
    /\ proc[p].pc \in {"forget", "project"} => proc[p].loaded = identityKey

(* A store in use: it holds secrets, or a writer has it open.                 *)
InUse ==
    /\ database # "absent"
    /\ \/ stores[database].rows # {}
       \/ \E w \in Writer : Writing(w) /\ proc[w].conn = database

Undisturbed ==
    /\ \A p \in InitProcess : InitRelies(p)
    /\ \A p, q \in InitProcess :
           p # q /\ InProgress(p) /\ InProgress(q) => {p, q} \subseteq OperatorInit /\ StoreOpens
    /\ InUse => StoreOpens
    /\ database # "absent" /\ stores[database].mode = "encrypted" =>
           stores[database].rows \subseteq {storageKey}
    /\ \A w \in Writer :
           proc[w].pc = "insert" /\ stores[proc[w].conn].mode = "encrypted" =>
               proc[w].loaded = storageKey

HomeInv ==
    /\ HomeTypes
    /\ \A p \in InitProcess : InitHolds(p)
    /\ \A w \in Writer : WriterHolds(w)
    /\ \A i \in DOMAIN stores : RowsFit(i)
    /\ LastInitOpens
    /\ ~collided => Undisturbed

(* The libp2p key: one process writes it, and no other reads it before.       *)
KeyInv ==
    /\ transportKey \in Made \cup {"absent", "torn"}
    /\ \A p \in TransportUser : proc[p].pc = "writekey" => transportKey = "torn"
    /\ \A p, q \in TransportUser :
           proc[p].pc = "writekey" /\ proc[q].pc = "writekey" => p = q
    /\ \A p \in TransportUser :
           proc[p].pc = "serving" => proc[p].loaded = transportKey /\ transportKey \in Made
-----------------------------------------------------------------------------
(* What the names of the model are not: a process is neither "old" nor one of *)
(* the states of a file.                                                      *)
LEMMA Names ==
    /\ "absent" \notin Made /\ "plain" \notin Made /\ "torn" \notin Made
    /\ OperatorInit \subseteq InitProcess /\ SqliteInit \subseteq InitProcess
    /\ InitProcess \subseteq Process /\ Writer \subseteq Process /\ TransportUser \subseteq Process
    /\ Process \subseteq Made
    /\ \A p \in InitProcess : ModeOf[p] \in Modes
    /\ \A p \in OperatorInit : p \notin SqliteInit
    /\ \A p \in InitProcess : p \notin Writer /\ p \notin TransportUser
    /\ \A p \in Writer : p \notin TransportUser
  BY Zenon, HomeAssumption DEF Made, Process, InitProcess, Modes

LEMMA Stages ==
    /\ Ended \cap BeforeConnect = {} /\ Ended \cap AfterConnect = {}
    /\ BeforeConnect \cap AfterConnect = {}
    /\ BeforeProjection \subseteq AfterConnect
    /\ "seal" \notin Ended /\ "insert" \notin Ended /\ "writekey" \notin Ended
    /\ EndedInit \subseteq Ended /\ "idle" \in Ended
    /\ InitPcs \subseteq Ended \cup BeforeConnect \cup AfterConnect
    /\ "keygen" \in BeforeConnect /\ "generate" \in AfterConnect
    /\ {"forget", "project"} \subseteq AfterConnect
  BY Zenon DEF Ended, BeforeConnect, AfterConnect, BeforeProjection, EndedInit, InitPcs

(* A step moves one process and leaves the others where they are.             *)
LEMMA OthersStay ==
    ASSUME HomeTypes, NEW p \in Process, NEW job, proc' = [proc EXCEPT ![p] = job]
    PROVE  /\ proc'[p] = job
           /\ \A q \in Process : q # p => proc'[q] = proc[q]
           /\ \A q \in Process : q # p => InProgress(q)' = InProgress(q)
           /\ job \in ProcessRecords => proc' \in [Process -> ProcessRecords]
  <1>1. proc \in [Process -> ProcessRecords]
    BY Zenon DEF HomeTypes
  <1>2. proc'[p] = job /\ \A q \in Process : q # p => proc'[q] = proc[q]
    BY Zenon, <1>1
  <1>3. \A q \in Process : q # p => InProgress(q)' = InProgress(q)
    BY Zenon, <1>2 DEF InProgress
  <1>4. job \in ProcessRecords => proc' \in [Process -> ProcessRecords]
    BY Zenon, <1>1
  <1>. QED BY Zenon, <1>2, <1>3, <1>4

(* What opening asks of the files, without the connection.                    *)
LEMMA OpensMeans ==
    StoreOpens <=>
        /\ database # "absent"
        /\ defaults # "absent" /\ registry
        /\ stores[database].private /\ stores[database].schema
        /\ identityKey # "absent" /\ stores[database].nodes = {identityKey}
        /\ stores[database].mode # "none"
        /\ stores[database].mode = "encrypted" => storageKey # "absent"
        /\ defaults \in Modes => defaults = stores[database].mode
  BY Zenon DEF StoreOpens, DatastoreValid, OperatorStoreValid, StorageModeValid, NodeIdentityValid

LEMMA OpensMeansNext ==
    StoreOpens' <=>
        /\ database' # "absent"
        /\ defaults' # "absent" /\ registry'
        /\ stores'[database'].private /\ stores'[database'].schema
        /\ identityKey' # "absent" /\ stores'[database'].nodes = {identityKey'}
        /\ stores'[database'].mode # "none"
        /\ stores'[database'].mode = "encrypted" => storageKey' # "absent"
        /\ defaults' \in Modes => defaults' = stores'[database'].mode
  BY Zenon DEF StoreOpens, DatastoreValid, OperatorStoreValid, StorageModeValid, NodeIdentityValid

(* The file operations of an init, as the other processes see them.           *)
Tame(p) ==
    /\ DOMAIN stores \subseteq DOMAIN stores' /\ DOMAIN stores' \subseteq Made
    /\ \A i \in DOMAIN stores :
           /\ stores'[i] \in StoreRecords
           /\ stores'[i].rows = stores[i].rows
           /\ stores[i].mode # "none" => stores'[i].mode = stores[i].mode
    /\ \A i \in DOMAIN stores' : i \notin DOMAIN stores =>
           i = p /\ stores'[i] = NewFile
    /\ database' # database => database' \notin DOMAIN stores /\ stores'[database'] = NewFile
    /\ storageKey # "absent" => storageKey' # "absent"
    /\ defaults' \in Modes \cup {"absent", "empty"}
    /\ registry' \in BOOLEAN
    /\ storageKey' \in Made \cup {"absent"}
    /\ identityKey' \in Made \cup {"absent"}
    /\ database' \in Made \cup {"absent"}
    /\ database' # "absent" => database' \in DOMAIN stores'
    /\ transportKey' = transportKey
    /\ ~collided /\ storageKey # "absent" => storageKey' = storageKey
    /\ ~collided /\ StoreOpens =>
           StoreOpens' /\ UNCHANGED <<database, storageKey, identityKey>>


(* One step of an init leaves the other processes what they rely on.          *)
LEMMA InitStep ==
    ASSUME HomeInv, NEW p \in InitProcess, InProgress(p), Tame(p),
           NEW job \in ProcessRecords, job.pc \in InitPcs,
           proc' = [proc EXCEPT ![p] = job],
           collided' = collided,
           lastInit' \in {"none", "done", "failed", "killed"},
           job.pc \in Ended => lastInit' # "done" \/ StoreOpens',
           InitHolds(p)',
           ~collided => InitRelies(p)'
    PROVE  HomeInv'
  <1>1. /\ proc'[p] = job
        /\ \A q \in Process : q # p => proc'[q] = proc[q]
        /\ \A q \in Process : q # p => InProgress(q)' = InProgress(q)
        /\ proc' \in [Process -> ProcessRecords]
    BY Zenon, Names, OthersStay DEF HomeInv
  <1>2. HomeTypes'
    <2>1. /\ \A q \in InitProcess : proc'[q].pc \in InitPcs
          /\ \A q \in Writer : proc'[q].pc \in WriterPcs
          /\ \A q \in TransportUser : proc'[q].pc \in TransportPcs
      BY <1>1, Names DEF HomeInv, HomeTypes
    <2>2. NewFile \in StoreRecords
      BY Zenon DEF StoreRecords, NewFile
    <2>3. \A i \in DOMAIN stores' : stores'[i] \in StoreRecords
      BY Zenon, <2>2 DEF Tame
    <2>. QED BY Zenon, <1>1, <2>1, <2>3 DEF HomeTypes, HomeInv, Tame
  <1>3. \A q \in InitProcess : InitHolds(q)'
    <2>. SUFFICES ASSUME NEW q \in InitProcess, q # p PROVE InitHolds(q)'
      BY Zenon
    <2>1. proc'[q] = proc[q] /\ InitHolds(q)
      BY Zenon, <1>1, Names DEF HomeInv
    <2>2. q \in DOMAIN stores' => q \in DOMAIN stores
      BY Zenon, Names DEF Tame
    <2>. QED BY Zenon, <2>1, <2>2 DEF InitHolds, Tame
  <1>4. \A w \in Writer : WriterHolds(w)'
    <2>. SUFFICES ASSUME NEW w \in Writer, Writing(w)' PROVE WriterHolds(w)'
      BY Zenon DEF WriterHolds
    <2>1. proc'[w] = proc[w] /\ WriterHolds(w) /\ Writing(w)
      BY Zenon, <1>1, Names DEF HomeInv, Writing
    <2>2. /\ proc[w].conn \in DOMAIN stores
          /\ stores[proc[w].conn].mode # "none"
      BY Zenon, <2>1 DEF WriterHolds
    <2>3. stores'[proc[w].conn].mode = stores[proc[w].conn].mode
      BY Zenon, <2>2 DEF Tame
    <2>. QED BY Zenon, <2>1, <2>2, <2>3 DEF WriterHolds, Tame
  <1>5. \A i \in DOMAIN stores' : RowsFit(i)'
    <2>. SUFFICES ASSUME NEW i \in DOMAIN stores' PROVE RowsFit(i)'
      BY Zenon
    <2>1. CASE i \in DOMAIN stores
      BY Zenon, <2>1 DEF Tame, HomeInv, RowsFit
    <2>2. CASE i \notin DOMAIN stores
      <3>1. stores'[i].rows = {}
        BY <2>2 DEF Tame, NewFile
      <3>. QED BY Zenon, <3>1 DEF RowsFit
    <2>. QED BY Zenon, <2>1, <2>2
  <1>6. LastInitOpens'
    <2>1. InProgress(p)' <=> job.pc \notin Ended
      BY Zenon, <1>1 DEF InProgress
    <2>. QED BY Zenon, <2>1 DEF LastInitOpens
  <1>7. ASSUME ~collided PROVE Undisturbed'
    <2>1. Undisturbed
      BY Zenon, <1>7 DEF HomeInv
    <2>2. ASSUME NEW q \in InitProcess PROVE InitRelies(q)'
      <3>1. CASE q = p
        BY Zenon, <1>7, <3>1
      <3>2. CASE q # p /\ ~InProgress(q)
        <4>1. proc'[q] = proc[q] /\ proc[q].pc \in Ended
          BY Zenon, <3>2, <1>1, Names DEF InProgress
        <4>. QED BY Zenon, <4>1, Stages DEF InitRelies
      <3>3. CASE q # p /\ InProgress(q)
        <4>1. p \in OperatorInit /\ q \in OperatorInit /\ StoreOpens
          BY Zenon, <2>1, <3>3 DEF Undisturbed
        <4>2. StoreOpens' /\ UNCHANGED <<database, storageKey, identityKey>>
          BY Zenon, <1>7, <4>1 DEF Tame
        <4>3. database \in DOMAIN stores /\ stores[database].mode # "none"
          BY Zenon, <4>1, OpensMeans DEF HomeInv, HomeTypes
        <4>4. stores'[database].mode = stores[database].mode
          BY Zenon, <4>3 DEF Tame
        <4>5. proc'[q] = proc[q] /\ InitRelies(q)
          BY Zenon, <3>3, <1>1, <2>1, Names DEF Undisturbed
        <4>. QED BY Zenon, <4>1, <4>2, <4>4, <4>5, Names DEF InitRelies
      <3>. QED BY Zenon, <3>1, <3>2, <3>3
    <2>3. ASSUME NEW q \in InitProcess, NEW r \in InitProcess, q # r, InProgress(q)', InProgress(r)'
          PROVE  {q, r} \subseteq OperatorInit /\ StoreOpens'
      <3>1. InProgress(q) /\ InProgress(r)
        BY Zenon, <1>1, <2>3, Names
      <3>2. {q, r} \subseteq OperatorInit /\ StoreOpens
        BY Zenon, <3>1, <2>3, <2>1 DEF Undisturbed
      <3>. QED BY Zenon, <1>7, <3>2 DEF Tame
    <2>4. ASSUME InUse' PROVE InUse /\ StoreOpens
      <3>1. database' # "absent"
        BY Zenon, <2>4 DEF InUse
      <3>2. CASE database' # database
        <4>1. stores'[database'].rows = {} /\ database' \notin DOMAIN stores
          BY <3>2 DEF Tame, NewFile
        <4>2. \A w \in Writer : Writing(w)' => proc'[w].conn \in DOMAIN stores
          BY ZenonT(30), <1>1, Names DEF HomeInv, WriterHolds, Writing
        <4>. QED BY Zenon, <2>4, <4>1, <4>2 DEF InUse
      <3>3. CASE database' = database
        <4>1. database \in DOMAIN stores
          BY Zenon, <3>1, <3>3 DEF HomeInv, HomeTypes
        <4>2. stores'[database].rows = stores[database].rows
          BY Zenon, <4>1 DEF Tame
        <4>3. \A w \in Writer : proc'[w] = proc[w]
          BY Zenon, <1>1, Names
        <4>4. InUse
          BY Zenon, <2>4, <3>1, <3>3, <4>2, <4>3 DEF InUse, Writing
        <4>. QED BY Zenon, <4>4, <2>1 DEF Undisturbed
      <3>. QED BY Zenon, <3>2, <3>3
    <2>5. InUse' => StoreOpens'
      BY Zenon, <2>4, <1>7 DEF Tame
    <2>6. ASSUME database' # "absent", stores'[database'].mode = "encrypted"
          PROVE  stores'[database'].rows \subseteq {storageKey'}
      <3>1. CASE stores'[database'].rows = {}
        BY Zenon, <3>1
      <3>2. CASE stores'[database'].rows # {}
        <4>1. StoreOpens /\ UNCHANGED <<database, storageKey>>
          BY Zenon, <3>2, <2>6, <2>4, <1>7 DEF InUse, Tame
        <4>2. database \in DOMAIN stores /\ stores[database].mode # "none"
          BY Zenon, <4>1, OpensMeans DEF HomeInv, HomeTypes
        <4>3. stores'[database].mode = stores[database].mode /\ stores'[database].rows = stores[database].rows
          BY Zenon, <4>2 DEF Tame
        <4>. QED BY Zenon, <2>1, <2>6, <4>1, <4>3 DEF Undisturbed
      <3>. QED BY Zenon, <3>1, <3>2
    <2>7. ASSUME NEW w \in Writer, proc'[w].pc = "insert", stores'[proc'[w].conn].mode = "encrypted"
          PROVE  proc'[w].loaded = storageKey'
      <3>1. proc'[w] = proc[w] /\ WriterHolds(w)
        BY Zenon, <1>1, Names DEF HomeInv
      <3>2. proc[w].conn \in DOMAIN stores /\ stores[proc[w].conn].mode # "none"
        BY Zenon, <3>1, <2>7 DEF WriterHolds, Writing
      <3>3. stores[proc[w].conn].mode = "encrypted"
        BY Zenon, <2>7, <3>1, <3>2 DEF Tame
      <3>4. storageKey # "absent" /\ proc[w].loaded = storageKey
        BY Zenon, <2>1, <2>7, <3>1, <3>3 DEF WriterHolds, Writing, Undisturbed
      <3>. QED BY Zenon, <1>7, <3>1, <3>4 DEF Tame
    <2>. QED BY Zenon, <2>2, <2>3, <2>5, <2>6, <2>7 DEF Undisturbed
  <1>. QED BY Zenon, <1>2, <1>3, <1>4, <1>5, <1>6, <1>7 DEF HomeInv

-----------------------------------------------------------------------------
(* The records a process passes through.                                      *)
LEMMA NextJob ==
    ASSUME NEW r \in ProcessRecords, NEW step \in InitPcs \cup WriterPcs \cup TransportPcs
    PROVE  /\ [r EXCEPT !.pc = step] \in ProcessRecords
           /\ [r EXCEPT !.pc = step].pc = step
           /\ [r EXCEPT !.pc = step].replace = r.replace
           /\ [r EXCEPT !.pc = step].existed = r.existed
           /\ [r EXCEPT !.pc = step].conn = r.conn
           /\ [r EXCEPT !.pc = step].loaded = r.loaded
  BY Zenon DEF ProcessRecords

LEMMA ConnJob ==
    ASSUME NEW r \in ProcessRecords, NEW c \in Made \cup {"absent"}
    PROVE  /\ [r EXCEPT !.conn = c] \in ProcessRecords
           /\ [r EXCEPT !.conn = c].replace = r.replace
           /\ [r EXCEPT !.conn = c].conn = c
           /\ [r EXCEPT !.conn = c].loaded = r.loaded
  BY Zenon DEF ProcessRecords

LEMMA LoadedJob ==
    ASSUME NEW r \in ProcessRecords, NEW k \in Made \cup {"absent", "plain"}
    PROVE  /\ [r EXCEPT !.loaded = k] \in ProcessRecords
           /\ [r EXCEPT !.loaded = k].replace = r.replace
           /\ [r EXCEPT !.loaded = k].conn = r.conn
           /\ [r EXCEPT !.loaded = k].loaded = k
  BY Zenon DEF ProcessRecords

LEMMA EndJob ==
    ASSUME NEW outcome \in EndedInit
    PROVE  /\ [IdleProcess EXCEPT !.pc = outcome] \in ProcessRecords
           /\ [IdleProcess EXCEPT !.pc = outcome].pc = outcome
           /\ [IdleProcess EXCEPT !.pc = outcome].replace = FALSE
  BY Zenon DEF IdleProcess, ProcessRecords, InitPcs, EndedInit

(* A step that leaves the files alone is tame.                                *)
LEMMA QuietTame ==
    ASSUME HomeInv, UNCHANGED fileVars, NEW p
    PROVE  Tame(p)
  <1>1. UNCHANGED <<defaults, registry, storageKey, identityKey, database, stores, transportKey>>
    BY Zenon DEF fileVars
  <1>2. StoreOpens' = StoreOpens
    BY Zenon, <1>1 DEF StoreOpens, DatastoreValid, OperatorStoreValid, StorageModeValid, NodeIdentityValid
  <1>. QED BY Zenon, <1>1, <1>2 DEF Tame, HomeInv, HomeTypes

(* An init that ends keeps nothing it could rely on.                          *)
LEMMA LeaveStep ==
    ASSUME HomeInv, NEW p \in InitProcess, InProgress(p), Tame(p), NEW outcome \in EndedInit,
           proc' = [proc EXCEPT ![p] = [IdleProcess EXCEPT !.pc = outcome]],
           lastInit' = outcome, collided' = collided, outcome = "done" => StoreOpens'
    PROVE  HomeInv'
  <1>. DEFINE job == [IdleProcess EXCEPT !.pc = outcome]
  <1>1. job \in ProcessRecords /\ job.pc = outcome /\ job.replace = FALSE
    BY Zenon, EndJob
  <1>. HIDE DEF job
  <1>2. proc' = [proc EXCEPT ![p] = job]
    BY Zenon DEF job
  <1>3. proc'[p] = job
    BY Zenon, <1>2, Names, OthersStay DEF HomeInv
  <1>4. outcome \in InitPcs /\ outcome \in Ended /\ outcome # "idle"
    BY Zenon DEF EndedInit, InitPcs, Ended
  <1>5. outcome \notin BeforeConnect /\ outcome \notin AfterConnect
    BY Zenon, <1>4, Stages
  <1>6. InitHolds(p)'
    BY Zenon, <1>1, <1>3, <1>4, <1>5, Stages DEF InitHolds
  <1>7. InitRelies(p)'
    BY Zenon, <1>1, <1>3, <1>5, Stages DEF InitRelies
  <1>8. lastInit' \in {"none", "done", "failed", "killed"}
    BY Zenon DEF EndedInit
  <1>. QED BY Zenon, <1>1, <1>2, <1>4, <1>6, <1>7, <1>8, InitStep

LEMMA EndStep ==
    ASSUME HomeInv, NEW p \in InitProcess, InProgress(p), Tame(p), NEW outcome \in EndedInit,
           EndProcess(p, outcome), outcome = "done" => StoreOpens'
    PROVE  HomeInv'
  <1>1. /\ proc' = [proc EXCEPT ![p] = [IdleProcess EXCEPT !.pc = outcome]]
        /\ lastInit' = outcome /\ collided' = collided
    BY Zenon DEF EndProcess
  <1>. QED BY Zenon, <1>1, LeaveStep

(* A step of an init before it connects.                                      *)
LEMMA EarlyStep ==
    ASSUME HomeInv, NEW p \in InitProcess, proc[p].pc \in BeforeConnect, Tame(p),
           NEW step \in BeforeConnect, ProcessGoto(p, step), Continues,
           UNCHANGED <<database, stores>>,
           step = "keygen" => storageKey' = "absent" /\ ModeOf[p] = "encrypted"
    PROVE  HomeInv'
  <1>. DEFINE job == [proc[p] EXCEPT !.pc = step]
  <1>1. proc[p] \in ProcessRecords /\ p \in Process
    BY Zenon, Names DEF HomeInv, HomeTypes
  <1>2. step \in InitPcs /\ step \notin Ended /\ step \notin AfterConnect /\ InProgress(p)
    BY Zenon, Stages DEF InitPcs, InProgress
  <1>3. job \in ProcessRecords /\ job.pc = step /\ job.replace = proc[p].replace
    BY Zenon, <1>1, <1>2, NextJob
  <1>4. proc' = [proc EXCEPT ![p] = job]
    BY Zenon DEF ProcessGoto
  <1>. HIDE DEF job
  <1>5. proc'[p] = job
    BY Zenon, <1>1, <1>4, OthersStay DEF HomeInv
  <1>6. InitHolds(p)'
    BY Zenon, <1>2, <1>3, <1>5, Stages DEF InitHolds, HomeInv
  <1>7. ~collided => InitRelies(p)'
    BY Zenon, <1>2, <1>3, <1>5, Stages DEF InitRelies, HomeInv, Undisturbed
  <1>8. lastInit' \in {"none", "done", "failed", "killed"} /\ collided' = collided
    BY Zenon DEF Continues, HomeInv, HomeTypes
  <1>. QED BY Zenon, <1>2, <1>3, <1>4, <1>6, <1>7, <1>8, InitStep

(* A step of an init with its connection open.                                *)
LEMMA LateStep ==
    ASSUME HomeInv, NEW p \in InitProcess, proc[p].pc \in AfterConnect, Tame(p),
           NEW step \in AfterConnect, NEW job \in ProcessRecords,
           proc' = [proc EXCEPT ![p] = job], job.pc = step, job.conn = proc[p].conn,
           job.replace = proc[p].replace, Continues, database' = database,
           step \in {"forget", "project"} => job.loaded \in Made,
           ~collided => /\ p \in SqliteInit /\ step \in BeforeProjection =>
                               proc[p].pc \in BeforeProjection /\ stores'[database].nodes = {}
                        /\ step = "generate" => identityKey' = "absent"
                        /\ step \in {"forget", "project"} => job.loaded = identityKey'
    PROVE  HomeInv'
  <1>1. p \in Process
    BY Zenon, Names
  <1>2. step \in InitPcs /\ step \notin Ended /\ step \notin BeforeConnect /\ step # "idle" /\ InProgress(p)
    BY Zenon, Stages DEF InitPcs, InProgress
  <1>3. proc'[p] = job
    BY Zenon, <1>1, OthersStay DEF HomeInv
  <1>4. InitHolds(p)'
    BY Zenon, <1>2, <1>3 DEF InitHolds, HomeInv, Tame
  <1>5. ~collided => InitRelies(p)'
    BY ZenonT(30), <1>2, <1>3, Stages DEF InitRelies, HomeInv, Undisturbed
  <1>6. lastInit' \in {"none", "done", "failed", "killed"} /\ collided' = collided
    BY Zenon DEF Continues, HomeInv, HomeTypes
  <1>. QED BY Zenon, <1>2, <1>4, <1>5, <1>6, InitStep

-----------------------------------------------------------------------------
(* save_defaults writes the mode the init has found in the database.          *)
LEMMA SaveDefaultsKeeps ==
    ASSUME HomeInv, NEW p \in InitProcess, SaveDefaults(p)
    PROVE  HomeInv'
  <1>. DEFINE step == IF p \in SqliteInit THEN "key" ELSE "registry"
  <1>1. /\ proc[p].pc = "defaults" /\ defaults' = ModeOf[p] /\ ProcessGoto(p, step) /\ Continues
        /\ UNCHANGED <<registry, storageKey, identityKey, database, stores, transportKey>>
    BY Zenon DEF SaveDefaults, ProcessAt
  <1>2. proc[p].pc \in BeforeConnect /\ step \in BeforeConnect /\ step # "keygen"
    BY Zenon, <1>1 DEF BeforeConnect
  <1>3. ASSUME ~collided, StoreOpens PROVE StoreOpens'
    <2>1. InitRelies(p)
      BY Zenon, <1>3 DEF HomeInv, Undisturbed
    <2>2. database # "absent" /\ p \in OperatorInit
      BY Zenon, <1>2, <1>3, <2>1, OpensMeans DEF InitRelies, InitProcess
    <2>3. stores[database].mode = ModeOf[p] /\ ModeOf[p] # "absent"
      BY Zenon, <1>2, <2>1, <2>2, Names DEF InitRelies, Modes
    <2>. QED BY Zenon, <1>1, <1>3, <2>3, OpensMeans, OpensMeansNext
  <1>4. Tame(p)
    BY Zenon, <1>1, <1>3, Names DEF Tame, HomeInv, HomeTypes
  <1>. QED BY Zenon, <1>1, <1>2, <1>4, EarlyStep

LEMMA EnsureRegistryKeeps ==
    ASSUME HomeInv, NEW p \in InitProcess, EnsureRegistry(p)
    PROVE  HomeInv'
  <1>. DEFINE step == IF p \in SqliteInit THEN "defaults" ELSE "key"
  <1>1. /\ proc[p].pc = "registry" /\ registry' = TRUE
        /\ defaults' = IF defaults = "absent" THEN "empty" ELSE defaults
        /\ ProcessGoto(p, step) /\ Continues
        /\ UNCHANGED <<storageKey, identityKey, database, stores, transportKey>>
    BY Zenon DEF EnsureRegistry, ProcessAt
  <1>2. proc[p].pc \in BeforeConnect /\ step \in BeforeConnect /\ step # "keygen"
    BY Zenon, <1>1 DEF BeforeConnect
  <1>3. defaults' \in Modes \cup {"absent", "empty"} /\ (defaults # "absent" => defaults' = defaults)
    BY Zenon, <1>1 DEF HomeInv, HomeTypes
  <1>4. StoreOpens => StoreOpens'
    BY Zenon, <1>1, <1>3, OpensMeans, OpensMeansNext
  <1>5. Tame(p)
    BY Zenon, <1>1, <1>3, <1>4 DEF Tame, HomeInv, HomeTypes
  <1>. QED BY Zenon, <1>1, <1>2, <1>5, EarlyStep

LEMMA EnsureStorageKeyKeeps ==
    ASSUME HomeInv, NEW p \in InitProcess, EnsureStorageKey(p)
    PROVE  HomeInv'
  <1>. DEFINE step == IF ModeOf[p] = "encrypted" /\ storageKey = "absent" THEN "keygen" ELSE "connect"
  <1>1. proc[p].pc = "key" /\ ProcessGoto(p, step) /\ Continues /\ UNCHANGED fileVars
    BY Zenon DEF EnsureStorageKey, ProcessAt
  <1>2. proc[p].pc \in BeforeConnect /\ step \in BeforeConnect
    BY Zenon, <1>1 DEF BeforeConnect
  <1>3. UNCHANGED <<database, stores, storageKey>>
    BY Zenon, <1>1 DEF fileVars
  <1>4. step = "keygen" => storageKey' = "absent" /\ ModeOf[p] = "encrypted"
    BY Zenon, <1>3
  <1>. QED BY Zenon, <1>1, <1>2, <1>3, <1>4, QuietTame, EarlyStep

(* _create_storage_key never replaces a key that something was sealed with.   *)
LEMMA CreateStorageKeyKeeps ==
    ASSUME HomeInv, NEW p \in InitProcess, CreateStorageKey(p)
    PROVE  HomeInv'
  <1>1. /\ proc[p].pc = "keygen" /\ storageKey' = p /\ ProcessGoto(p, "connect") /\ Continues
        /\ UNCHANGED <<defaults, registry, identityKey, database, stores, transportKey>>
    BY Zenon DEF CreateStorageKey, ProcessAt
  <1>2. proc[p].pc \in BeforeConnect /\ "connect" \in BeforeConnect /\ "connect" # "keygen"
    BY Zenon, <1>1 DEF BeforeConnect
  <1>3. p \in Made /\ p # "absent"
    BY Zenon, Names
  <1>4. ASSUME ~collided PROVE storageKey = "absent" /\ ~StoreOpens
    <2>1. InitRelies(p)
      BY Zenon, <1>4 DEF HomeInv, Undisturbed
    <2>2. storageKey = "absent" /\ ModeOf[p] = "encrypted"
      BY Zenon, <1>1, <2>1 DEF InitRelies
    <2>3. p \in OperatorInit \/ database = "absent"
      BY Zenon, <1>2, <2>1 DEF InitRelies, InitProcess
    <2>4. database # "absent" => stores[database].mode = "encrypted"
      BY Zenon, <1>2, <2>1, <2>2, <2>3 DEF InitRelies
    <2>. QED BY Zenon, <2>2, <2>4, OpensMeans
  <1>5. Tame(p)
    BY Zenon, <1>1, <1>3, <1>4 DEF Tame, HomeInv, HomeTypes
  <1>. QED BY Zenon, <1>1, <1>2, <1>5, EarlyStep

-----------------------------------------------------------------------------
(* An init that writes to the one file it is connected to.                    *)
LEMMA FileTame ==
    ASSUME HomeInv, NEW p, NEW i \in DOMAIN stores, NEW rec \in StoreRecords,
           stores' = [stores EXCEPT ![i] = rec],
           rec.rows = stores[i].rows, stores[i].mode # "none" => rec.mode = stores[i].mode,
           UNCHANGED <<defaults, registry, storageKey, identityKey, database, transportKey>>,
           ~collided /\ StoreOpens /\ i = database =>
               /\ rec.private /\ rec.schema
               /\ rec.nodes = {identityKey}
    PROVE  Tame(p)
  <1>1. DOMAIN stores' = DOMAIN stores /\ stores'[i] = rec
        /\ \A j \in DOMAIN stores : j # i => stores'[j] = stores[j]
    BY Zenon
  <1>2. \A j \in DOMAIN stores : stores[j] \in StoreRecords
    BY Zenon DEF HomeInv, HomeTypes
  <1>3. ASSUME ~collided, StoreOpens PROVE StoreOpens'
    <2>1. CASE i = database
      BY Zenon, <1>1, <1>3, <2>1, OpensMeans, OpensMeansNext
    <2>2. CASE i # database
      <3>1. database \in DOMAIN stores
        BY Zenon, <1>3, OpensMeans DEF HomeInv, HomeTypes
      <3>2. stores'[database] = stores[database]
        BY Zenon, <1>1, <2>2, <3>1
      <3>. QED BY Zenon, <1>3, <3>2, OpensMeans, OpensMeansNext
    <2>. QED BY Zenon, <2>1, <2>2
  <1>4. \A j \in DOMAIN stores :
            /\ stores'[j] \in StoreRecords
            /\ stores'[j].rows = stores[j].rows
            /\ stores[j].mode # "none" => stores'[j].mode = stores[j].mode
    BY Zenon, <1>1, <1>2
  <1>. QED BY Zenon, <1>1, <1>3, <1>4 DEF Tame, HomeInv, HomeTypes

(* The fields of a database file after one of them is written.                *)
LEMMA FileWritten ==
    ASSUME NEW r \in StoreRecords
    PROVE  /\ [r EXCEPT !.schema = TRUE] \in StoreRecords
           /\ [r EXCEPT !.schema = TRUE].schema = TRUE
           /\ [r EXCEPT !.schema = TRUE].mode = r.mode
           /\ [r EXCEPT !.schema = TRUE].nodes = r.nodes
           /\ [r EXCEPT !.schema = TRUE].private = r.private
           /\ [r EXCEPT !.schema = TRUE].rows = r.rows
           /\ [r EXCEPT !.private = TRUE] \in StoreRecords
           /\ [r EXCEPT !.private = TRUE].schema = r.schema
           /\ [r EXCEPT !.private = TRUE].mode = r.mode
           /\ [r EXCEPT !.private = TRUE].nodes = r.nodes
           /\ [r EXCEPT !.private = TRUE].private = TRUE
           /\ [r EXCEPT !.private = TRUE].rows = r.rows
  BY Zenon DEF StoreRecords

LEMMA ModeWritten ==
    ASSUME NEW r \in StoreRecords, NEW m \in Modes
    PROVE  /\ [r EXCEPT !.mode = m] \in StoreRecords
           /\ [r EXCEPT !.mode = m].mode = m
           /\ [r EXCEPT !.mode = m].rows = r.rows
           /\ [r EXCEPT !.mode = m].nodes = r.nodes
  BY Zenon DEF StoreRecords

LEMMA NodesWritten ==
    ASSUME NEW r \in StoreRecords, NEW N \in SUBSET Made
    PROVE  /\ [r EXCEPT !.nodes = N] \in StoreRecords
           /\ [r EXCEPT !.nodes = N].schema = r.schema
           /\ [r EXCEPT !.nodes = N].mode = r.mode
           /\ [r EXCEPT !.nodes = N].nodes = N
           /\ [r EXCEPT !.nodes = N].private = r.private
           /\ [r EXCEPT !.nodes = N].rows = r.rows
  BY Zenon DEF StoreRecords

LEMMA RowsWritten ==
    ASSUME NEW r \in StoreRecords, NEW R \in SUBSET (Made \cup {"plain"})
    PROVE  /\ [r EXCEPT !.rows = R] \in StoreRecords
           /\ [r EXCEPT !.rows = R].schema = r.schema
           /\ [r EXCEPT !.rows = R].mode = r.mode
           /\ [r EXCEPT !.rows = R].nodes = r.nodes
           /\ [r EXCEPT !.rows = R].private = r.private
           /\ [r EXCEPT !.rows = R].rows = R
  BY Zenon DEF StoreRecords

(* What an init with an open connection knows of it.                          *)
LEMMA ConnectionOpen ==
    ASSUME HomeInv, NEW p \in InitProcess, proc[p].pc \in AfterConnect
    PROVE  /\ p \in Process /\ proc[p] \in ProcessRecords /\ InProgress(p)
           /\ proc[p].conn \in DOMAIN stores /\ stores[proc[p].conn] \in StoreRecords
           /\ ~collided => InitRelies(p)
  <1>1. p \in Process /\ proc[p] \in ProcessRecords
    BY Zenon, Names DEF HomeInv, HomeTypes
  <1>2. InProgress(p)
    BY Zenon, Stages DEF InProgress
  <1>. QED BY Zenon, <1>1, <1>2 DEF HomeInv, HomeTypes, InitHolds, Undisturbed

LEMMA BootstrapSchemaKeeps ==
    ASSUME HomeInv, NEW p \in InitProcess, BootstrapSchema(p)
    PROVE  HomeInv'
  <1>. DEFINE i == proc[p].conn
              rec == [stores[i] EXCEPT !.schema = TRUE]
              job == [proc[p] EXCEPT !.pc = "mode"]
  <1>1. /\ proc[p].pc = "schema" /\ stores' = [stores EXCEPT ![i] = rec]
        /\ proc' = [proc EXCEPT ![p] = job] /\ Continues
        /\ UNCHANGED <<defaults, registry, storageKey, identityKey, database, transportKey>>
    BY Zenon DEF BootstrapSchema, ProcessAt, ProcessGoto
  <1>2. /\ proc[p].pc \in AfterConnect /\ proc[p].pc \in BeforeProjection
        /\ "mode" \in AfterConnect /\ "mode" \in InitPcs
    BY Zenon, <1>1 DEF AfterConnect, BeforeProjection, InitPcs
  <1>3. /\ p \in Process /\ proc[p] \in ProcessRecords
        /\ i \in DOMAIN stores /\ stores[i] \in StoreRecords
        /\ ~collided => InitRelies(p)
    BY Zenon, <1>2, ConnectionOpen
  <1>4. job \in ProcessRecords /\ job.pc = "mode" /\ job.conn = i /\ job.replace = proc[p].replace
    BY ZenonT(30), <1>2, <1>3, NextJob
  <1>5. /\ rec \in StoreRecords /\ rec.rows = stores[i].rows /\ rec.mode = stores[i].mode
        /\ rec.nodes = stores[i].nodes /\ rec.private = stores[i].private /\ rec.schema = TRUE
    BY Zenon, <1>3, FileWritten
  <1>. HIDE DEF rec, job
  <1>6. Tame(p)
    BY ZenonT(30), <1>1, <1>3, <1>5, OpensMeans, FileTame
  <1>7. stores'[i].nodes = stores[i].nodes
    BY Zenon, <1>1, <1>3, <1>5
  <1>8. ~collided => (p \in SqliteInit => stores'[database].nodes = {})
    BY Zenon, <1>2, <1>3, <1>7 DEF InitRelies
  <1>. QED BY Zenon, <1>1, <1>2, <1>4, <1>6, <1>8, LateStep

(* A late step that only looks at the files.                                  *)
LEMMA LookStep ==
    ASSUME HomeInv, NEW p \in InitProcess, proc[p].pc \in AfterConnect,
           NEW step \in AfterConnect, ProcessGoto(p, step), Continues, UNCHANGED fileVars,
           step \notin {"forget", "project"},
           step = "generate" => identityKey = "absent",
           step \in BeforeProjection => proc[p].pc \in BeforeProjection
    PROVE  HomeInv'
  <1>. DEFINE job == [proc[p] EXCEPT !.pc = step]
  <1>1. proc' = [proc EXCEPT ![p] = job]
    BY Zenon DEF ProcessGoto
  <1>2. /\ p \in Process /\ proc[p] \in ProcessRecords
        /\ ~collided => InitRelies(p)
    BY Zenon, ConnectionOpen
  <1>3. step \in InitPcs
    BY Zenon DEF InitPcs
  <1>4. job \in ProcessRecords /\ job.pc = step /\ job.conn = proc[p].conn /\ job.replace = proc[p].replace
    BY ZenonT(30), <1>2, <1>3, NextJob
  <1>. HIDE DEF job
  <1>5. UNCHANGED <<database, stores, identityKey>>
    BY Zenon DEF fileVars
  <1>6. ~collided => (p \in SqliteInit /\ step \in BeforeProjection => stores'[database].nodes = {})
    BY Zenon, <1>2, <1>5 DEF InitRelies
  <1>. QED BY Zenon, <1>1, <1>4, <1>5, <1>6, QuietTame, LateStep

LEMMA ReadStorageModeKeeps ==
    ASSUME HomeInv, NEW p \in InitProcess, ReadStorageMode(p)
    PROVE  HomeInv'
  <1>1. proc[p].pc = "mode" /\ UNCHANGED fileVars
    BY Zenon DEF ReadStorageMode, ProcessAt
  <1>2. /\ proc[p].pc \in AfterConnect /\ proc[p].pc \in BeforeProjection
        /\ "setmode" \in AfterConnect /\ "chmod" \in AfterConnect /\ "failed" \in EndedInit
    BY Zenon, <1>1 DEF AfterConnect, BeforeProjection, EndedInit
  <1>3. CASE ProcessGoto(p, "setmode") /\ Continues
    BY Zenon, <1>1, <1>2, <1>3, LookStep
  <1>4. CASE ProcessGoto(p, "chmod") /\ Continues
    BY Zenon, <1>1, <1>2, <1>4, LookStep
  <1>5. CASE EndProcess(p, "failed")
    BY Zenon, <1>1, <1>2, <1>5, ConnectionOpen, QuietTame, EndStep
  <1>. QED BY Zenon, <1>3, <1>4, <1>5 DEF ReadStorageMode

(* initialize_sqlite_storage_mode writes a mode only where there was none.    *)
LEMMA SetStorageModeKeeps ==
    ASSUME HomeInv, NEW p \in InitProcess, SetStorageMode(p)
    PROVE  HomeInv'
  <1>. DEFINE i == proc[p].conn
              rec == [stores[i] EXCEPT !.mode = ModeOf[p]]
              job == [proc[p] EXCEPT !.pc = "chmod"]
  <1>1. /\ proc[p].pc = "setmode"
        /\ UNCHANGED <<defaults, registry, storageKey, identityKey, database, transportKey>>
    BY Zenon DEF SetStorageMode, ProcessAt
  <1>2. /\ proc[p].pc \in AfterConnect /\ proc[p].pc \in BeforeProjection
        /\ "chmod" \in AfterConnect /\ "chmod" \in InitPcs /\ "failed" \in EndedInit
    BY Zenon, <1>1 DEF AfterConnect, BeforeProjection, InitPcs, EndedInit
  <1>3. /\ p \in Process /\ proc[p] \in ProcessRecords /\ InProgress(p)
        /\ i \in DOMAIN stores /\ stores[i] \in StoreRecords
        /\ ~collided => InitRelies(p)
    BY Zenon, <1>2, ConnectionOpen
  <1>4. CASE stores[i].mode = "none"
    <2>1. stores' = [stores EXCEPT ![i] = rec] /\ proc' = [proc EXCEPT ![p] = job] /\ Continues
      BY Zenon, <1>4 DEF SetStorageMode, ProcessGoto
    <2>2. job \in ProcessRecords /\ job.pc = "chmod" /\ job.conn = i /\ job.replace = proc[p].replace
      BY ZenonT(30), <1>2, <1>3, NextJob
    <2>3. rec \in StoreRecords /\ rec.rows = stores[i].rows /\ rec.nodes = stores[i].nodes
      BY Zenon, <1>3, Names, ModeWritten
    <2>. HIDE DEF rec, job
    <2>4. ~(StoreOpens /\ i = database)
      BY Zenon, <1>4, OpensMeans
    <2>5. Tame(p)
      BY Zenon, <1>1, <1>3, <1>4, <2>1, <2>3, <2>4, FileTame
    <2>6. stores'[i].nodes = stores[i].nodes
      BY Zenon, <1>3, <2>1, <2>3
    <2>7. ~collided => (p \in SqliteInit => stores'[database].nodes = {})
      BY Zenon, <1>2, <1>3, <2>6 DEF InitRelies
    <2>. QED BY Zenon, <1>1, <1>2, <2>1, <2>2, <2>5, <2>7, LateStep
  <1>5. CASE stores[i].mode # "none"
    <2>1. EndProcess(p, "failed") /\ UNCHANGED fileVars
      BY Zenon, <1>1, <1>5 DEF SetStorageMode, fileVars
    <2>. QED BY Zenon, <1>2, <1>3, <2>1, QuietTame, EndStep
  <1>. QED BY Zenon, <1>4, <1>5

LEMMA RestrictDatabaseKeeps ==
    ASSUME HomeInv, NEW p \in InitProcess, RestrictDatabase(p)
    PROVE  HomeInv'
  <1>. DEFINE rec == [stores[database] EXCEPT !.private = TRUE]
              job == [proc[p] EXCEPT !.pc = "identity"]
  <1>1. /\ proc[p].pc = "chmod"
        /\ UNCHANGED <<defaults, registry, storageKey, identityKey, database, transportKey>>
    BY Zenon DEF RestrictDatabase, ProcessAt
  <1>2. /\ proc[p].pc \in AfterConnect /\ proc[p].pc \in BeforeProjection
        /\ "identity" \in AfterConnect /\ "identity" \in InitPcs /\ "failed" \in EndedInit
    BY Zenon, <1>1 DEF AfterConnect, BeforeProjection, InitPcs, EndedInit
  <1>3. /\ p \in Process /\ proc[p] \in ProcessRecords /\ InProgress(p)
        /\ ~collided => InitRelies(p)
    BY Zenon, <1>2, ConnectionOpen
  <1>4. CASE EndProcess(p, "failed") /\ UNCHANGED stores
    <2>1. UNCHANGED fileVars
      BY Zenon, <1>1, <1>4 DEF fileVars
    <2>. QED BY Zenon, <1>2, <1>3, <1>4, <2>1, QuietTame, EndStep
  <1>5. CASE UNCHANGED stores /\ ProcessGoto(p, "identity") /\ Continues
    <2>1. UNCHANGED fileVars
      BY Zenon, <1>1, <1>5 DEF fileVars
    <2>. QED BY Zenon, <1>2, <1>5, <2>1, LookStep
  <1>6. CASE /\ database # "absent" /\ stores' = [stores EXCEPT ![database] = rec]
             /\ ProcessGoto(p, "identity") /\ Continues
    <2>1. proc' = [proc EXCEPT ![p] = job]
      BY Zenon, <1>6 DEF ProcessGoto
    <2>2. job \in ProcessRecords /\ job.pc = "identity" /\ job.conn = proc[p].conn
          /\ job.replace = proc[p].replace
      BY ZenonT(30), <1>2, <1>3, NextJob
    <2>3. database \in DOMAIN stores /\ stores[database] \in StoreRecords
      BY Zenon, <1>6 DEF HomeInv, HomeTypes
    <2>4. /\ rec \in StoreRecords /\ rec.rows = stores[database].rows /\ rec.mode = stores[database].mode
          /\ rec.nodes = stores[database].nodes /\ rec.schema = stores[database].schema
          /\ rec.private = TRUE
      BY Zenon, <2>3, FileWritten
    <2>. HIDE DEF rec, job
    <2>5. Tame(p)
      BY Zenon, <1>1, <1>6, <2>3, <2>4, OpensMeans, FileTame
    <2>6. stores'[database].nodes = stores[database].nodes
      BY Zenon, <1>6, <2>3, <2>4
    <2>7. ~collided => (p \in SqliteInit => stores'[database].nodes = {})
      BY Zenon, <1>2, <1>3, <2>6 DEF InitRelies
    <2>. QED BY Zenon, <1>1, <1>2, <1>6, <2>1, <2>2, <2>5, <2>7, LateStep
  <1>7. CASE ~proc[p].existed /\ database = "absent"
    BY Zenon, <1>4, <1>7 DEF RestrictDatabase
  <1>8. CASE proc[p].existed
    BY Zenon, <1>5, <1>8 DEF RestrictDatabase
  <1>9. CASE ~proc[p].existed /\ database # "absent"
    <2>1. stores' = [stores EXCEPT ![database] = rec] /\ ProcessGoto(p, "identity") /\ Continues
      BY Zenon, <1>9 DEF RestrictDatabase
    <2>. QED BY Zenon, <1>6, <1>9, <2>1
  <1>. QED BY Zenon, <1>7, <1>8, <1>9

(* Only an init that replaced the database unlinks an identity, and nothing   *)
(* has used its new file yet.                                                 *)
LEMMA DropIdentityKeeps ==
    ASSUME HomeInv, NEW p \in InitProcess, DropIdentity(p)
    PROVE  HomeInv'
  <1>. DEFINE job == [proc[p] EXCEPT !.pc = "loadidentity"]
  <1>1. /\ proc[p].pc = "identity" /\ proc' = [proc EXCEPT ![p] = job] /\ Continues
        /\ identityKey' = IF proc[p].replace THEN "absent" ELSE identityKey
        /\ UNCHANGED <<defaults, registry, storageKey, database, stores, transportKey>>
    BY Zenon DEF DropIdentity, ProcessAt, ProcessGoto
  <1>2. /\ proc[p].pc \in AfterConnect /\ proc[p].pc \in BeforeProjection
        /\ "loadidentity" \in AfterConnect /\ "loadidentity" \in InitPcs
    BY Zenon, <1>1 DEF AfterConnect, BeforeProjection, InitPcs
  <1>3. /\ p \in Process /\ proc[p] \in ProcessRecords
        /\ ~collided => InitRelies(p)
    BY Zenon, <1>2, ConnectionOpen
  <1>4. job \in ProcessRecords /\ job.pc = "loadidentity" /\ job.conn = proc[p].conn
        /\ job.replace = proc[p].replace
    BY ZenonT(30), <1>2, <1>3, NextJob
  <1>. HIDE DEF job
  <1>5. ASSUME ~collided, StoreOpens PROVE identityKey' = identityKey /\ StoreOpens'
    <2>1. InitRelies(p) /\ InitHolds(p)
      BY Zenon, <1>5 DEF HomeInv, Undisturbed
    <2>2. stores[database].nodes # {}
      BY Zenon, <1>5, OpensMeans
    <2>3. p \in OperatorInit
      BY Zenon, <1>2, <2>1, <2>2 DEF InitRelies, InitProcess
    <2>4. identityKey' = identityKey
      BY Zenon, <1>1, <2>1, <2>3 DEF InitHolds
    <2>. QED BY Zenon, <1>1, <1>5, <2>4, OpensMeans, OpensMeansNext
  <1>6. identityKey' \in Made \cup {"absent"}
    BY Zenon, <1>1 DEF HomeInv, HomeTypes
  <1>7. Tame(p)
    BY Zenon, <1>1, <1>5, <1>6 DEF Tame, HomeInv, HomeTypes
  <1>8. ~collided => (p \in SqliteInit => stores'[database].nodes = {})
    BY Zenon, <1>1, <1>2, <1>3 DEF InitRelies
  <1>. QED BY Zenon, <1>1, <1>2, <1>4, <1>7, <1>8, LateStep

LEMMA LoadIdentityKeeps ==
    ASSUME HomeInv, NEW p \in InitProcess, LoadIdentity(p)
    PROVE  HomeInv'
  <1>. DEFINE loaded == [proc[p] EXCEPT !.loaded = identityKey]
              job == [loaded EXCEPT !.pc = "forget"]
  <1>1. proc[p].pc = "loadidentity" /\ Continues /\ UNCHANGED fileVars
    BY Zenon DEF LoadIdentity, ProcessAt
  <1>2. /\ proc[p].pc \in AfterConnect /\ proc[p].pc \in BeforeProjection
        /\ "generate" \in AfterConnect /\ "forget" \in AfterConnect /\ "forget" \in InitPcs
    BY Zenon, <1>1 DEF AfterConnect, BeforeProjection, InitPcs
  <1>3. /\ p \in Process /\ proc[p] \in ProcessRecords
        /\ ~collided => InitRelies(p)
    BY Zenon, <1>2, ConnectionOpen
  <1>4. UNCHANGED <<database, stores, identityKey>>
    BY Zenon, <1>1 DEF fileVars
  <1>5. CASE identityKey = "absent"
    <2>1. ProcessGoto(p, "generate")
      BY Zenon, <1>5 DEF LoadIdentity
    <2>. QED BY Zenon, <1>1, <1>2, <1>5, <2>1, LookStep
  <1>6. CASE identityKey # "absent"
    <2>1. identityKey \in Made
      BY Zenon, <1>6 DEF HomeInv, HomeTypes
    <2>2. proc' = [proc EXCEPT ![p] = job]
      BY Zenon, <1>6 DEF LoadIdentity, GotoWith, Loaded
    <2>3. /\ loaded \in ProcessRecords /\ loaded.conn = proc[p].conn
          /\ loaded.replace = proc[p].replace /\ loaded.loaded = identityKey
      BY Zenon, <1>3, <2>1, LoadedJob
    <2>. HIDE DEF loaded
    <2>4. /\ job \in ProcessRecords /\ job.pc = "forget" /\ job.conn = proc[p].conn
          /\ job.replace = proc[p].replace /\ job.loaded = identityKey
      BY Zenon, <1>2, <2>3, NextJob
    <2>. HIDE DEF job
    <2>5. ~collided => (p \in SqliteInit => stores'[database].nodes = {})
      BY Zenon, <1>2, <1>3, <1>4 DEF InitRelies
    <2>. QED BY Zenon, <1>1, <1>2, <1>4, <2>1, <2>2, <2>4, <2>5, QuietTame, LateStep
  <1>. QED BY Zenon, <1>5, <1>6

LEMMA CreateIdentityKeeps ==
    ASSUME HomeInv, NEW p \in InitProcess, CreateIdentity(p)
    PROVE  HomeInv'
  <1>. DEFINE loaded == [proc[p] EXCEPT !.loaded = p]
              job == [loaded EXCEPT !.pc = "forget"]
  <1>1. /\ proc[p].pc = "generate" /\ Continues /\ identityKey' = p
        /\ proc' = [proc EXCEPT ![p] = job]
        /\ UNCHANGED <<defaults, registry, storageKey, database, stores, transportKey>>
    BY Zenon DEF CreateIdentity, ProcessAt, GotoWith, Loaded
  <1>2. /\ proc[p].pc \in AfterConnect /\ proc[p].pc \in BeforeProjection
        /\ "forget" \in AfterConnect /\ "forget" \in InitPcs
    BY Zenon, <1>1 DEF AfterConnect, BeforeProjection, InitPcs
  <1>3. /\ p \in Process /\ proc[p] \in ProcessRecords /\ p \in Made
        /\ ~collided => InitRelies(p)
    BY Zenon, <1>2, Names, ConnectionOpen
  <1>4. /\ loaded \in ProcessRecords /\ loaded.conn = proc[p].conn
        /\ loaded.replace = proc[p].replace /\ loaded.loaded = p
    BY Zenon, <1>3, LoadedJob
  <1>. HIDE DEF loaded
  <1>5. /\ job \in ProcessRecords /\ job.pc = "forget" /\ job.conn = proc[p].conn
        /\ job.replace = proc[p].replace /\ job.loaded = p
    BY ZenonT(30), <1>2, <1>4, NextJob
  <1>. HIDE DEF job
  <1>6. ~collided => ~StoreOpens
    BY Zenon, <1>1, <1>3, OpensMeans DEF InitRelies
  <1>7. Tame(p)
    BY Zenon, <1>1, <1>3, <1>6 DEF Tame, HomeInv, HomeTypes
  <1>8. ~collided => (p \in SqliteInit => stores'[database].nodes = {})
    BY Zenon, <1>1, <1>2, <1>3 DEF InitRelies
  <1>. QED BY Zenon, <1>1, <1>2, <1>3, <1>5, <1>7, <1>8, LateStep

(* save_local_node_projection, which in an undisturbed store writes the node  *)
(* it already has, or the first one.                                          *)
LEMMA ProjectionKeeps ==
    ASSUME HomeInv, NEW p \in InitProcess, proc[p].pc \in {"forget", "project"},
           NEW N \in SUBSET Made, NEW step \in {"project", "checkidentity"},
           stores' = [stores EXCEPT ![proc[p].conn].nodes = N],
           stores[proc[p].conn].nodes = {proc[p].loaded} => N = {proc[p].loaded},
           step = "project" /\ stores[proc[p].conn].nodes = {} => N = {},
           ProcessGoto(p, step), Continues,
           UNCHANGED <<defaults, registry, storageKey, identityKey, database, transportKey>>
    PROVE  HomeInv'
  <1>. DEFINE i == proc[p].conn
              rec == [stores[i] EXCEPT !.nodes = N]
              job == [proc[p] EXCEPT !.pc = step]
  <1>1. stores' = [stores EXCEPT ![i] = rec] /\ proc' = [proc EXCEPT ![p] = job]
    BY Zenon DEF ProcessGoto
  <1>2. /\ proc[p].pc \in AfterConnect /\ proc[p].pc \in BeforeProjection
        /\ step \in AfterConnect /\ step \in InitPcs
        /\ step \in BeforeProjection => step = "project"
    BY Zenon DEF AfterConnect, BeforeProjection, InitPcs
  <1>3. /\ p \in Process /\ proc[p] \in ProcessRecords
        /\ i \in DOMAIN stores /\ stores[i] \in StoreRecords
        /\ ~collided => InitRelies(p)
    BY Zenon, <1>2, ConnectionOpen
  <1>4. job \in ProcessRecords /\ job.pc = step /\ job.conn = i /\ job.replace = proc[p].replace
        /\ job.loaded = proc[p].loaded
    BY ZenonT(30), <1>2, <1>3, NextJob
  <1>5. /\ rec \in StoreRecords /\ rec.rows = stores[i].rows /\ rec.mode = stores[i].mode
        /\ rec.nodes = N /\ rec.private = stores[i].private /\ rec.schema = stores[i].schema
    BY ZenonT(30), <1>3, NodesWritten
  <1>. HIDE DEF rec, job
  <1>6. ~collided => proc[p].loaded = identityKey
    BY Zenon, <1>3 DEF InitRelies
  <1>7. Tame(p)
    <2>1. ~collided /\ StoreOpens /\ i = database => rec.private /\ rec.schema /\ rec.nodes = {identityKey}
      BY Zenon, <1>5, <1>6, OpensMeans
    <2>. QED BY ZenonT(30), <1>1, <1>3, <1>5, <2>1, FileTame
  <1>8. stores'[i].nodes = N
    BY Zenon, <1>1, <1>3, <1>5
  <1>9. ~collided => (p \in SqliteInit /\ step \in BeforeProjection => stores'[database].nodes = {})
    BY Zenon, <1>2, <1>3, <1>8 DEF InitRelies
  <1>10. proc[p].loaded \in Made
    BY Zenon DEF HomeInv, InitHolds
  <1>. QED BY ZenonT(30), <1>1, <1>2, <1>4, <1>6, <1>7, <1>9, <1>10, LateStep

LEMMA ForgetOtherNodesKeeps ==
    ASSUME HomeInv, NEW p \in InitProcess, ForgetOtherNodes(p)
    PROVE  HomeInv'
  <1>. DEFINE N == stores[proc[p].conn].nodes \cap {proc[p].loaded}
  <1>1. /\ proc[p].pc = "forget" /\ ProcessGoto(p, "project") /\ Continues
        /\ stores' = [stores EXCEPT ![proc[p].conn].nodes = N]
        /\ UNCHANGED <<defaults, registry, storageKey, identityKey, database, transportKey>>
    BY Zenon DEF ForgetOtherNodes, ProcessAt
  <1>2. stores[proc[p].conn] \in StoreRecords
    BY Zenon, <1>1, ConnectionOpen DEF AfterConnect, BeforeProjection
  <1>3. N \in SUBSET Made
    BY Zenon, <1>2 DEF StoreRecords
  <1>4. /\ stores[proc[p].conn].nodes = {proc[p].loaded} => N = {proc[p].loaded}
        /\ stores[proc[p].conn].nodes = {} => N = {}
    BY Zenon
  <1>. HIDE DEF N
  <1>. QED BY Zenon, <1>1, <1>3, <1>4, ProjectionKeeps

LEMMA ProjectNodeKeeps ==
    ASSUME HomeInv, NEW p \in InitProcess, ProjectNode(p)
    PROVE  HomeInv'
  <1>. DEFINE N == stores[proc[p].conn].nodes \cup {proc[p].loaded}
  <1>1. /\ proc[p].pc = "project" /\ ProcessGoto(p, "checkidentity") /\ Continues
        /\ stores' = [stores EXCEPT ![proc[p].conn].nodes = N]
        /\ UNCHANGED <<defaults, registry, storageKey, identityKey, database, transportKey>>
    BY Zenon DEF ProjectNode, ProcessAt
  <1>2. stores[proc[p].conn] \in StoreRecords /\ proc[p].loaded \in Made
    BY Zenon, <1>1, ConnectionOpen DEF AfterConnect, BeforeProjection, HomeInv, InitHolds
  <1>3. N \in SUBSET Made
    BY Zenon, <1>2 DEF StoreRecords
  <1>4. stores[proc[p].conn].nodes = {proc[p].loaded} => N = {proc[p].loaded}
    BY Zenon
  <1>. HIDE DEF N
  <1>. QED BY Zenon, <1>1, <1>3, <1>4, ProjectionKeeps

LEMMA CheckIdentityKeeps ==
    ASSUME HomeInv, NEW p \in InitProcess, CheckIdentity(p)
    PROVE  HomeInv'
  <1>1. proc[p].pc = "checkidentity" /\ UNCHANGED fileVars
    BY Zenon DEF CheckIdentity, ProcessAt
  <1>2. proc[p].pc \in AfterConnect /\ "seed" \in AfterConnect /\ "seed" \notin BeforeProjection
        /\ "failed" \in EndedInit
    BY Zenon, <1>1 DEF AfterConnect, BeforeProjection, EndedInit
  <1>3. CASE ProcessGoto(p, "seed") /\ Continues
    BY Zenon, <1>1, <1>2, <1>3, LookStep
  <1>4. CASE EndProcess(p, "failed")
    BY Zenon, <1>1, <1>2, <1>4, ConnectionOpen, QuietTame, EndStep
  <1>. QED BY Zenon, <1>3, <1>4 DEF CheckIdentity

LEMMA SeedStoreKeeps ==
    ASSUME HomeInv, NEW p \in InitProcess, SeedStore(p)
    PROVE  HomeInv'
  <1>1. proc[p].pc = "seed" /\ UNCHANGED fileVars
    BY Zenon DEF SeedStore, ProcessAt
  <1>2. proc[p].pc \in AfterConnect /\ "validate" \in AfterConnect /\ "validate" \notin BeforeProjection
        /\ "failed" \in EndedInit
    BY Zenon, <1>1 DEF AfterConnect, BeforeProjection, EndedInit
  <1>3. CASE ProcessGoto(p, "validate") /\ Continues
    BY Zenon, <1>1, <1>2, <1>3, LookStep
  <1>4. CASE EndProcess(p, "failed")
    BY Zenon, <1>1, <1>2, <1>4, ConnectionOpen, QuietTame, EndStep
  <1>. QED BY Zenon, <1>3, <1>4 DEF SeedStore

(* The outcome an init reports is what validation found.                      *)
LEMMA ValidateInstallationKeeps ==
    ASSUME HomeInv, NEW p \in InitProcess, ValidateInstallation(p)
    PROVE  HomeInv'
  <1>1. proc[p].pc = "validate" /\ UNCHANGED fileVars
    BY Zenon DEF ValidateInstallation, ProcessAt
  <1>2. proc[p].pc \in AfterConnect /\ "done" \in EndedInit /\ "failed" \in EndedInit
    BY Zenon, <1>1 DEF AfterConnect, EndedInit
  <1>3. StoreOpens' = StoreOpens
    BY Zenon, <1>1 DEF fileVars, StoreOpens, DatastoreValid, OperatorStoreValid, StorageModeValid,
                       NodeIdentityValid
  <1>4. CASE StoreOpens /\ EndProcess(p, "done")
    BY Zenon, <1>1, <1>2, <1>3, <1>4, ConnectionOpen, QuietTame, EndStep
  <1>5. CASE EndProcess(p, "failed")
    BY Zenon, <1>1, <1>2, <1>5, ConnectionOpen, QuietTame, EndStep
  <1>. QED BY Zenon, <1>4, <1>5 DEF ValidateInstallation

(* provision_sqlite_datastore: the file a connection creates is new.          *)
LEMMA ConnectDatastoreKeeps ==
    ASSUME HomeInv, NEW p \in InitProcess, ConnectDatastore(p)
    PROVE  HomeInv'
  <1>. DEFINE existed == database # "absent"
              conn == [proc[p] EXCEPT !.conn = database']
              found == [conn EXCEPT !.existed = existed]
              job == [found EXCEPT !.pc = "schema"]
  <1>1. /\ proc[p].pc = "connect" /\ Continues
        /\ database' = IF database = "absent" THEN p ELSE database
        /\ stores' = IF database = "absent"
                     THEN [i \in DOMAIN stores \cup {p} |-> IF i = p THEN NewFile ELSE stores[i]]
                     ELSE stores
        /\ proc' = [proc EXCEPT ![p] = job]
        /\ UNCHANGED <<defaults, registry, storageKey, identityKey, transportKey>>
    BY Zenon DEF ConnectDatastore, ProcessAt, GotoWith, Connected
  <1>2. /\ proc[p].pc \in BeforeConnect /\ "schema" \in AfterConnect /\ "schema" \in BeforeProjection
        /\ "schema" \in InitPcs /\ "schema" \notin Ended /\ "schema" \notin BeforeConnect
    BY Zenon, <1>1 DEF BeforeConnect, AfterConnect, BeforeProjection, InitPcs, Ended
  <1>3. /\ p \in Process /\ proc[p] \in ProcessRecords /\ p \in Made /\ p # "absent"
        /\ InProgress(p) /\ p \notin DOMAIN stores
    <2>1. p \in Process /\ proc[p] \in ProcessRecords /\ p \in Made /\ p # "absent"
      BY Zenon, Names DEF HomeInv, HomeTypes
    <2>2. InProgress(p) /\ p \notin DOMAIN stores
      BY Zenon, <1>2, Stages DEF InProgress, HomeInv, InitHolds
    <2>. QED BY Zenon, <2>1, <2>2
  <1>4. database' \in Made /\ database' # "absent"
    BY Zenon, <1>1, <1>3, Names DEF HomeInv, HomeTypes
  <1>5. conn \in ProcessRecords /\ conn.conn = database' /\ conn.replace = proc[p].replace
    BY Zenon, <1>3, <1>4, ConnJob
  <1>. HIDE DEF conn
  <1>6. existed \in BOOLEAN
    BY Zenon
  <1>. HIDE DEF existed
  <1>7. found \in ProcessRecords /\ found.conn = database' /\ found.replace = proc[p].replace
    BY Zenon, <1>5, <1>6 DEF ProcessRecords
  <1>. HIDE DEF found
  <1>8. job \in ProcessRecords /\ job.pc = "schema" /\ job.conn = database' /\ job.replace = proc[p].replace
    BY Zenon, <1>2, <1>7, NextJob
  <1>. HIDE DEF job
  <1>9. proc'[p] = job
    BY Zenon, <1>1, <1>3, OthersStay DEF HomeInv
  <1>10. /\ DOMAIN stores \subseteq DOMAIN stores' /\ DOMAIN stores' \subseteq DOMAIN stores \cup {p}
         /\ \A i \in DOMAIN stores : stores'[i] = stores[i]
         /\ database = "absent" => p \in DOMAIN stores' /\ stores'[p] = NewFile /\ database' = p
         /\ database # "absent" => stores' = stores /\ database' = database
    BY Zenon, <1>1, <1>3
  <1>11. StoreOpens => StoreOpens'
    BY Zenon, <1>1, <1>10, OpensMeans, OpensMeansNext
  <1>12. database' \in DOMAIN stores' /\ DOMAIN stores' \subseteq Made
    BY Zenon, <1>3, <1>4, <1>10 DEF HomeInv, HomeTypes
  <1>13. Tame(p)
    <2>1. StoreOpens => database # "absent"
      BY Zenon, OpensMeans
    <2>2. \A i \in DOMAIN stores' : i \notin DOMAIN stores => i = p /\ stores'[i] = NewFile
      BY Zenon, <1>10
    <2>3. database' # database => database' \notin DOMAIN stores /\ stores'[database'] = NewFile
      BY Zenon, <1>3, <1>10
    <2>4. UNCHANGED <<defaults, registry, storageKey, identityKey, transportKey>>
      BY Zenon, <1>1
    <2>5. \A i \in DOMAIN stores :
              /\ stores'[i] \in StoreRecords
              /\ stores'[i].rows = stores[i].rows
              /\ stores[i].mode # "none" => stores'[i].mode = stores[i].mode
      BY Zenon, <1>10 DEF HomeInv, HomeTypes
    <2>6. StoreOpens => StoreOpens' /\ UNCHANGED <<database, storageKey, identityKey>>
      BY Zenon, <1>10, <1>11, <2>1, <2>4
    <2>7. /\ DOMAIN stores \subseteq DOMAIN stores'
          /\ defaults' \in Modes \cup {"absent", "empty"} /\ registry' \in BOOLEAN
          /\ storageKey' \in Made \cup {"absent"} /\ identityKey' \in Made \cup {"absent"}
          /\ database' \in Made \cup {"absent"}
      BY Zenon, <1>4, <1>10, <2>4 DEF HomeInv, HomeTypes
    <2>. QED BY Zenon, <1>12, <2>2, <2>3, <2>4, <2>5, <2>6, <2>7 DEF Tame
  <1>14. InitHolds(p)'
    BY Zenon, <1>2, <1>8, <1>9, <1>12 DEF InitHolds, HomeInv
  <1>15. ASSUME ~collided PROVE InitRelies(p)'
    <2>1. p \in SqliteInit => database = "absent"
      BY Zenon, <1>2, <1>15 DEF HomeInv, Undisturbed, InitRelies
    <2>2. p \in SqliteInit => stores'[database'].nodes = {}
      BY <2>1, <1>10 DEF NewFile
    <2>. QED BY Zenon, <1>2, <1>8, <1>9, <2>2 DEF InitRelies
  <1>16. lastInit' \in {"none", "done", "failed", "killed"} /\ collided' = collided
    BY Zenon, <1>1 DEF Continues, HomeInv, HomeTypes
  <1>. QED BY Zenon, <1>1, <1>2, <1>3, <1>8, <1>13, <1>14, <1>15, <1>16, InitStep

-----------------------------------------------------------------------------
(* Whether a store opens is a matter of its files.                            *)
LEMMA SameFiles ==
    ASSUME UNCHANGED <<defaults, registry, storageKey, identityKey, database, stores>>
    PROVE  StoreOpens' = StoreOpens
  BY Zenon DEF StoreOpens, DatastoreValid, OperatorStoreValid, StorageModeValid, NodeIdentityValid

(* An init that begins, or is refused at once, over files it has not touched. *)
LEMMA BeginStep ==
    ASSUME HomeInv, NEW p \in InitProcess, proc[p].pc = "idle", UNCHANGED fileVars,
           NEW job \in ProcessRecords, proc' = [proc EXCEPT ![p] = job], job.pc \in InitPcs,
           collided' \in BOOLEAN, ~collided' => ~collided,
           ~collided' => \A q \in InitProcess :
               InProgress(q) /\ job.pc \notin Ended => {p, q} \subseteq OperatorInit /\ StoreOpens,
           lastInit' \in {"none", "done", "failed", "killed"},
           job.pc \in Ended => lastInit' # "done",
           InitHolds(p)',
           ~collided' => InitRelies(p)'
    PROVE  HomeInv'
  <1>1. /\ proc'[p] = job
        /\ \A q \in Process : q # p => proc'[q] = proc[q]
        /\ \A q \in Process : q # p => InProgress(q)' = InProgress(q)
        /\ proc' \in [Process -> ProcessRecords]
    BY Zenon, Names, OthersStay DEF HomeInv
  <1>2. UNCHANGED <<defaults, registry, storageKey, identityKey, database, stores, transportKey>>
    BY Zenon DEF fileVars
  <1>3. StoreOpens' = StoreOpens
    BY Zenon, <1>2, SameFiles
  <1>4. HomeTypes'
    <2>1. /\ \A q \in InitProcess : proc'[q].pc \in InitPcs
          /\ \A q \in Writer : proc'[q].pc \in WriterPcs
          /\ \A q \in TransportUser : proc'[q].pc \in TransportPcs
      BY ZenonT(30), <1>1, Names DEF HomeInv, HomeTypes
    <2>. QED BY Zenon, <1>1, <1>2, <2>1 DEF HomeTypes, HomeInv
  <1>5. \A q \in InitProcess : InitHolds(q)'
    BY ZenonT(30), <1>1, <1>2, Names DEF HomeInv, InitHolds
  <1>6. \A w \in Writer : proc'[w] = proc[w]
    BY Zenon, <1>1, Names
  <1>7. \A w \in Writer : WriterHolds(w)'
    BY ZenonT(30), <1>2, <1>6 DEF HomeInv, WriterHolds, Writing
  <1>8. \A i \in DOMAIN stores' : RowsFit(i)'
    BY Zenon, <1>2 DEF HomeInv, RowsFit
  <1>9. LastInitOpens'
    <2>1. InProgress(p)' <=> job.pc \notin Ended
      BY Zenon, <1>1 DEF InProgress
    <2>. QED BY Zenon, <2>1 DEF LastInitOpens
  <1>10. ASSUME ~collided' PROVE Undisturbed'
    <2>1. Undisturbed
      BY Zenon, <1>10 DEF HomeInv
    <2>2. \A q \in InitProcess : InitRelies(q)'
      BY ZenonT(30), <1>1, <1>2, <1>10, <2>1, Names DEF Undisturbed, InitRelies
    <2>3. ASSUME NEW q \in InitProcess, NEW r \in InitProcess, q # r, InProgress(q)', InProgress(r)'
          PROVE  {q, r} \subseteq OperatorInit /\ StoreOpens'
      <3>1. CASE q # p /\ r # p
        <4>1. InProgress(q) /\ InProgress(r)
          BY Zenon, <1>1, <2>3, <3>1, Names
        <4>. QED BY Zenon, <1>3, <2>1, <2>3, <4>1 DEF Undisturbed
      <3>2. CASE q = p
        <4>1. InProgress(r) /\ job.pc \notin Ended
          BY Zenon, <1>1, <2>3, <3>2, Names DEF InProgress
        <4>2. {p, r} \subseteq OperatorInit /\ StoreOpens
          BY Zenon, <1>10, <4>1
        <4>. QED BY Zenon, <1>3, <3>2, <4>2
      <3>3. CASE r = p
        <4>1. InProgress(q) /\ job.pc \notin Ended
          BY Zenon, <1>1, <2>3, <3>3, Names DEF InProgress
        <4>2. {p, q} \subseteq OperatorInit /\ StoreOpens
          BY Zenon, <1>10, <4>1
        <4>. QED BY Zenon, <1>3, <3>3, <4>2
      <3>. QED BY Zenon, <3>1, <3>2, <3>3
    <2>4. InUse' => StoreOpens'
      BY Zenon, <1>2, <1>3, <1>6, <2>1 DEF Undisturbed, InUse, Writing
    <2>. QED BY Zenon, <1>2, <1>6, <2>1, <2>2, <2>3, <2>4 DEF Undisturbed
  <1>. QED BY Zenon, <1>4, <1>5, <1>7, <1>8, <1>9, <1>10 DEF HomeInv

LEMMA BeginOperatorInitKeeps ==
    ASSUME HomeInv, NEW p \in OperatorInit, BeginOperatorInit(p)
    PROVE  HomeInv'
  <1>1. proc[p].pc = "idle" /\ UNCHANGED fileVars /\ p \in InitProcess
    BY Zenon, Names DEF BeginOperatorInit, ProcessAt
  <1>2. /\ p \in Process /\ proc[p] \in ProcessRecords /\ InitHolds(p)
        /\ collided \in BOOLEAN /\ lastInit \in {"none", "done", "failed", "killed"}
    BY Zenon, <1>1, Names DEF HomeInv, HomeTypes
  <1>3. UNCHANGED <<database, stores>>
    BY Zenon, <1>1 DEF fileVars
  <1>4. CASE StorageModeRefused(p)
    <2>. DEFINE job == [IdleProcess EXCEPT !.pc = "failed"]
    <2>1. proc' = [proc EXCEPT ![p] = job] /\ lastInit' = "failed" /\ collided' = collided
      BY Zenon, <1>1, <1>4 DEF BeginOperatorInit, EndProcess
    <2>2. "failed" \in EndedInit /\ "failed" \in InitPcs /\ "failed" \in Ended /\ "failed" # "idle"
      BY Zenon DEF EndedInit, InitPcs, Ended
    <2>3. job \in ProcessRecords /\ job.pc = "failed" /\ job.replace = FALSE
      BY Zenon, <2>2, EndJob
    <2>. HIDE DEF job
    <2>4. proc'[p] = job
      BY Zenon, <1>2, <2>1, OthersStay DEF HomeInv
    <2>5. InitHolds(p)'
      BY Zenon, <2>2, <2>3, <2>4, Stages DEF InitHolds
    <2>6. InitRelies(p)'
      BY Zenon, <2>2, <2>3, <2>4, Stages DEF InitRelies
    <2>. QED BY Zenon, <1>1, <1>2, <2>1, <2>2, <2>3, <2>5, <2>6, BeginStep
  <1>5. CASE ~StorageModeRefused(p)
    <2>. DEFINE job == [proc[p] EXCEPT !.pc = "defaults"]
    <2>1. proc' = [proc EXCEPT ![p] = job] /\ lastInit' = lastInit
          /\ collided' = (collided \/ InitsCollide(p))
      BY Zenon, <1>5 DEF BeginOperatorInit, ProcessGoto
    <2>2. "defaults" \in BeforeConnect /\ "defaults" \in InitPcs /\ "defaults" \notin Ended
      BY Zenon DEF BeforeConnect, InitPcs, Ended
    <2>3. job \in ProcessRecords /\ job.pc = "defaults" /\ job.replace = proc[p].replace
      BY Zenon, <1>2, <2>2, NextJob
    <2>. HIDE DEF job
    <2>4. proc'[p] = job
      BY Zenon, <1>2, <2>1, OthersStay DEF HomeInv
    <2>5. collided' \in BOOLEAN /\ (~collided' => ~collided /\ ~InitsCollide(p))
      BY Zenon, <2>1
    <2>6. InitHolds(p)'
      BY Zenon, <1>1, <1>2, <1>3, <2>2, <2>3, <2>4, Stages DEF InitHolds
    <2>7. InitRelies(p)'
      BY Zenon, <1>3, <1>5, <2>2, <2>3, <2>4, Names, Stages DEF InitRelies, StorageModeRefused
    <2>8. ~collided' => \A q \in InitProcess :
              InProgress(q) => {p, q} \subseteq OperatorInit /\ StoreOpens
      BY Zenon, <2>5 DEF InitsCollide
    <2>. QED BY Zenon, <1>1, <1>2, <2>1, <2>2, <2>3, <2>5, <2>6, <2>7, <2>8, BeginStep
  <1>. QED BY Zenon, <1>4, <1>5

(* cmd_init_sqlite: with the database unlinked there is nothing left in use.  *)
LEMMA BeginSqliteInitKeeps ==
    ASSUME HomeInv, NEW p \in SqliteInit, BeginSqliteInit(p)
    PROVE  HomeInv'
  <1>. DEFINE there == database # "absent"
              begun == [proc[p] EXCEPT !.replace = there]
              job == [begun EXCEPT !.pc = "registry"]
  <1>1. /\ proc[p].pc = "idle" /\ p \in InitProcess /\ p \in Process /\ p \notin OperatorInit
        /\ database' = "absent" /\ proc' = [proc EXCEPT ![p] = job]
        /\ UNCHANGED <<lastInit, defaults, registry, storageKey, identityKey, stores, transportKey>>
    BY Zenon, Names DEF BeginSqliteInit, ProcessAt, GotoWith
  <1>2. collided' \in BOOLEAN /\ (~collided' => ~collided /\ ~InitsCollide(p))
    BY Zenon DEF BeginSqliteInit
  <1>3. proc[p] \in ProcessRecords /\ InitHolds(p)
    BY Zenon, <1>1 DEF HomeInv, HomeTypes
  <1>4. there \in BOOLEAN
    BY Zenon
  <1>. HIDE DEF there
  <1>5. begun \in ProcessRecords
    BY Zenon, <1>3, <1>4 DEF ProcessRecords
  <1>. HIDE DEF begun
  <1>6. "registry" \in BeforeConnect /\ "registry" \in InitPcs /\ "registry" \notin Ended
        /\ "registry" # "keygen"
    BY Zenon DEF BeforeConnect, InitPcs, Ended
  <1>7. job \in ProcessRecords /\ job.pc = "registry"
    BY Zenon, <1>5, <1>6, NextJob
  <1>. HIDE DEF job
  <1>8. /\ proc'[p] = job
        /\ \A q \in Process : q # p => proc'[q] = proc[q]
        /\ \A q \in Process : q # p => InProgress(q)' = InProgress(q)
        /\ proc' \in [Process -> ProcessRecords]
    BY Zenon, <1>1, <1>7, OthersStay DEF HomeInv
  <1>9. HomeTypes'
    <2>1. /\ \A q \in InitProcess : proc'[q].pc \in InitPcs
          /\ \A q \in Writer : proc'[q].pc \in WriterPcs
          /\ \A q \in TransportUser : proc'[q].pc \in TransportPcs
      BY ZenonT(30), <1>1, <1>6, <1>7, <1>8, Names DEF HomeInv, HomeTypes
    <2>2. database' \in Made \cup {"absent"}
      BY Zenon, <1>1
    <2>. QED BY ZenonT(30), <1>1, <1>2, <1>8, <2>1, <2>2 DEF HomeTypes, HomeInv
  <1>10. \A q \in InitProcess : InitHolds(q)'
    <2>1. InitHolds(p)'
      BY Zenon, <1>1, <1>3, <1>6, <1>7, <1>8, Stages DEF InitHolds
    <2>. QED BY ZenonT(30), <1>1, <1>8, <2>1, Names DEF HomeInv, InitHolds
  <1>11. \A w \in Writer : proc'[w] = proc[w]
    BY Zenon, <1>1, <1>8, Names
  <1>12. \A w \in Writer : WriterHolds(w)'
    BY ZenonT(30), <1>1, <1>11 DEF HomeInv, WriterHolds, Writing
  <1>13. \A i \in DOMAIN stores' : RowsFit(i)'
    BY Zenon, <1>1 DEF HomeInv, RowsFit
  <1>14. InProgress(p)'
    BY Zenon, <1>6, <1>7, <1>8 DEF InProgress
  <1>15. LastInitOpens'
    BY Zenon, <1>1, <1>14 DEF LastInitOpens
  <1>16. ASSUME ~collided' PROVE Undisturbed'
    <2>1. Undisturbed
      BY Zenon, <1>2, <1>16 DEF HomeInv
    <2>2. \A q \in InitProcess : ~InProgress(q)
      BY Zenon, <1>1, <1>2, <1>16 DEF InitsCollide
    <2>3. \A q \in InitProcess : q # p => ~InProgress(q)' /\ proc'[q].pc \in Ended
      BY Zenon, <1>8, <2>2, Names DEF InProgress
    <2>4. ASSUME NEW q \in InitProcess PROVE InitRelies(q)'
      <3>1. CASE q = p
        BY ZenonT(30), <1>1, <1>6, <1>7, <1>8, <3>1, Stages DEF InitRelies
      <3>2. CASE q # p
        BY Zenon, <2>3, <3>2, Stages DEF InitRelies
      <3>. QED BY Zenon, <3>1, <3>2
    <2>5. ~InUse' /\ database' = "absent"
      BY Zenon, <1>1 DEF InUse
    <2>. QED BY Zenon, <1>1, <1>11, <2>1, <2>3, <2>4, <2>5 DEF Undisturbed
  <1>. QED BY Zenon, <1>9, <1>10, <1>12, <1>13, <1>15, <1>16 DEF HomeInv

-----------------------------------------------------------------------------
(* A writer or a daemon that leaves the store's files alone.                  *)
LEMMA OtherStep ==
    ASSUME HomeInv, NEW p \in Writer \cup TransportUser,
           NEW job \in ProcessRecords, proc' = [proc EXCEPT ![p] = job],
           UNCHANGED <<defaults, registry, storageKey, identityKey, database, stores, lastInit, collided>>,
           transportKey' \in Made \cup {"absent", "torn"},
           p \in Writer => job.pc \in WriterPcs /\ WriterHolds(p)',
           p \in TransportUser => job.pc \in TransportPcs,
           ~collided /\ p \in Writer =>
               /\ job.pc \in {"seal", "insert"} /\ job.conn = database => InUse \/ StoreOpens
               /\ job.pc = "insert" /\ stores[job.conn].mode = "encrypted" => job.loaded = storageKey
    PROVE  HomeInv'
  <1>1. p \in Process /\ p \notin InitProcess
    BY Zenon, Names
  <1>2. /\ proc'[p] = job
        /\ \A q \in Process : q # p => proc'[q] = proc[q]
        /\ proc' \in [Process -> ProcessRecords]
    BY Zenon, <1>1, OthersStay DEF HomeInv
  <1>3. \A q \in InitProcess : proc'[q] = proc[q] /\ InProgress(q)' = InProgress(q)
    BY Zenon, <1>1, <1>2, Names DEF InProgress
  <1>4. StoreOpens' = StoreOpens
    BY Zenon, SameFiles
  <1>5. HomeTypes'
    <2>1. /\ \A q \in InitProcess : proc'[q].pc \in InitPcs
          /\ \A q \in Writer : proc'[q].pc \in WriterPcs
          /\ \A q \in TransportUser : proc'[q].pc \in TransportPcs
      BY ZenonT(30), <1>2, <1>3, Names DEF HomeInv, HomeTypes
    <2>. QED BY ZenonT(30), <1>2, <2>1 DEF HomeTypes, HomeInv
  <1>6. \A q \in InitProcess : InitHolds(q)'
    BY Zenon, <1>3 DEF HomeInv, InitHolds
  <1>7. \A w \in Writer : WriterHolds(w)'
    BY ZenonT(30), <1>2, Names DEF HomeInv, WriterHolds, Writing
  <1>8. \A i \in DOMAIN stores' : RowsFit(i)'
    BY Zenon DEF HomeInv, RowsFit
  <1>9. LastInitOpens'
    BY Zenon, <1>3, <1>4 DEF LastInitOpens, HomeInv
  <1>10. ASSUME ~collided PROVE Undisturbed'
    <2>1. Undisturbed
      BY Zenon, <1>10 DEF HomeInv
    <2>2. \A q \in InitProcess : InitRelies(q)'
      BY ZenonT(30), <1>3, <2>1 DEF Undisturbed, InitRelies
    <2>3. \A q, r \in InitProcess :
              q # r /\ InProgress(q)' /\ InProgress(r)' => {q, r} \subseteq OperatorInit /\ StoreOpens'
      BY Zenon, <1>3, <1>4, <2>1 DEF Undisturbed
    <2>4. ASSUME InUse' PROVE StoreOpens
      <3>1. CASE stores[database].rows # {}
        BY Zenon, <2>1, <2>4, <3>1 DEF InUse, Undisturbed
      <3>2. CASE \E w \in Writer : Writing(w)' /\ proc'[w].conn = database
        <4>1. PICK w \in Writer : Writing(w)' /\ proc'[w].conn = database
          BY Zenon, <3>2
        <4>2. CASE w = p
          BY Zenon, <1>2, <1>10, <2>1, <4>1, <4>2 DEF Writing, Undisturbed
        <4>3. CASE w # p
          <5>1. Writing(w) /\ proc[w].conn = database /\ database # "absent"
            BY Zenon, <1>2, <2>4, <4>1, <4>3, Names DEF Writing, InUse
          <5>. QED BY Zenon, <2>1, <5>1 DEF InUse, Undisturbed
        <4>. QED BY Zenon, <4>2, <4>3
      <3>. QED BY Zenon, <2>4, <3>1, <3>2 DEF InUse
    <2>5. \A w \in Writer :
              proc'[w].pc = "insert" /\ stores[proc'[w].conn].mode = "encrypted" =>
                  proc'[w].loaded = storageKey
      BY Zenon, <1>2, <1>10, <2>1, Names DEF Undisturbed
    <2>. QED BY Zenon, <1>4, <2>1, <2>2, <2>3, <2>4, <2>5 DEF Undisturbed
  <1>. QED BY Zenon, <1>5, <1>6, <1>7, <1>8, <1>9, <1>10 DEF HomeInv

(* A process other than an init that ends.                                    *)
LEMMA OtherLeaves ==
    ASSUME HomeInv, NEW p \in Writer \cup TransportUser, NEW outcome \in EndedInit,
           proc' = [proc EXCEPT ![p] = [IdleProcess EXCEPT !.pc = outcome]],
           UNCHANGED fileVars, UNCHANGED <<lastInit, collided>>
    PROVE  HomeInv'
  <1>. DEFINE job == [IdleProcess EXCEPT !.pc = outcome]
  <1>1. job \in ProcessRecords /\ job.pc = outcome
    BY Zenon, EndJob
  <1>. HIDE DEF job
  <1>2. proc' = [proc EXCEPT ![p] = job] /\ p \in Process
    BY Zenon, Names DEF job
  <1>3. UNCHANGED <<defaults, registry, storageKey, identityKey, database, stores, transportKey>>
    BY Zenon DEF fileVars
  <1>4. outcome \in WriterPcs /\ outcome \in TransportPcs /\ outcome \notin {"seal", "insert"}
    BY Zenon DEF EndedInit, WriterPcs, TransportPcs
  <1>5. proc'[p] = job
    BY Zenon, <1>2, OthersStay DEF HomeInv
  <1>6. WriterHolds(p)'
    BY Zenon, <1>1, <1>4, <1>5 DEF WriterHolds, Writing
  <1>7. transportKey' \in Made \cup {"absent", "torn"}
    BY Zenon, <1>3 DEF HomeInv, HomeTypes
  <1>. QED BY Zenon, <1>1, <1>2, <1>3, <1>4, <1>6, <1>7, OtherStep

LEMMA OpenBackendKeeps ==
    ASSUME HomeInv, NEW p \in Writer, OpenBackend(p)
    PROVE  HomeInv'
  <1>. DEFINE conn == [proc[p] EXCEPT !.conn = database]
              job == [conn EXCEPT !.pc = "seal"]
  <1>1. UNCHANGED fileVars
    BY Zenon DEF OpenBackend
  <1>2. CASE ~StoreOpens
    <2>1. EndProcess(p, "failed")
      BY Zenon, <1>2 DEF OpenBackend
    <2>2. /\ proc' = [proc EXCEPT ![p] = [IdleProcess EXCEPT !.pc = "failed"]]
          /\ UNCHANGED <<lastInit, collided>>
      BY Zenon, <2>1, Names DEF EndProcess
    <2>. QED BY Zenon, <1>1, <2>2, OtherLeaves DEF EndedInit
  <1>3. CASE StoreOpens
    <2>1. proc' = [proc EXCEPT ![p] = job] /\ UNCHANGED <<lastInit, collided>>
      BY Zenon, <1>3 DEF OpenBackend, GotoWith, Connected, Continues
    <2>2. p \in Process /\ proc[p] \in ProcessRecords /\ p \notin TransportUser
      BY Zenon, Names DEF HomeInv, HomeTypes
    <2>3. database \in DOMAIN stores /\ database \in Made
      BY Zenon, <1>3, OpensMeans DEF HomeInv, HomeTypes
    <2>4. conn \in ProcessRecords /\ conn.conn = database
      BY Zenon, <2>2, <2>3, ConnJob
    <2>. HIDE DEF conn
    <2>5. "seal" \in WriterPcs
      BY Zenon DEF WriterPcs
    <2>6. job \in ProcessRecords /\ job.pc = "seal" /\ job.conn = database
      BY Zenon, <2>4, <2>5, NextJob
    <2>. HIDE DEF job
    <2>7. UNCHANGED <<defaults, registry, storageKey, identityKey, database, stores, transportKey>>
      BY Zenon, <1>1 DEF fileVars
    <2>8. proc'[p] = job
      BY Zenon, <2>1, <2>2, OthersStay DEF HomeInv
    <2>9. WriterHolds(p)'
      BY Zenon, <1>3, <2>3, <2>6, <2>7, <2>8, OpensMeans DEF WriterHolds
    <2>10. transportKey' \in Made \cup {"absent", "torn"}
      BY Zenon, <2>7 DEF HomeInv, HomeTypes
    <2>. QED BY Zenon, <1>3, <2>1, <2>2, <2>5, <2>6, <2>7, <2>9, <2>10, OtherStep
  <1>. QED BY Zenon, <1>2, <1>3

(* encrypt_payload finds a key: the store it opened had one.                  *)
LEMMA SealPayloadKeeps ==
    ASSUME HomeInv, NEW p \in Writer, SealPayload(p)
    PROVE  HomeInv'
  <1>. DEFINE i == proc[p].conn
              key == IF stores[i].mode = "encrypted" THEN storageKey ELSE "plain"
              sealed == [proc[p] EXCEPT !.loaded = key]
              job == [sealed EXCEPT !.pc = "insert"]
  <1>1. /\ proc[p].pc = "seal"
        /\ UNCHANGED <<lastInit, collided, defaults, registry, identityKey, database, stores, transportKey>>
    BY Zenon DEF SealPayload, ProcessAt, Continues
  <1>2. p \in Process /\ proc[p] \in ProcessRecords /\ p \notin TransportUser
    BY Zenon, Names DEF HomeInv, HomeTypes
  <1>3. Writing(p) /\ WriterHolds(p)
    BY Zenon, <1>1 DEF HomeInv, Writing
  <1>4. /\ i \in DOMAIN stores /\ stores[i].mode # "none"
        /\ stores[i].mode = "encrypted" => storageKey # "absent"
    BY Zenon, <1>3 DEF WriterHolds
  <1>5. storageKey' = storageKey
    BY Zenon, <1>4 DEF SealPayload
  <1>6. proc' = [proc EXCEPT ![p] = job]
    BY Zenon, <1>5 DEF SealPayload, GotoWith, Loaded
  <1>7. /\ key \in Made \cup {"absent", "plain"}
        /\ stores[i].mode = "encrypted" => key = storageKey /\ key \in Made
        /\ stores[i].mode = "plaintext" => key = "plain"
    BY Zenon, <1>4 DEF HomeInv, HomeTypes
  <1>. HIDE DEF key
  <1>8. sealed \in ProcessRecords /\ sealed.conn = i /\ sealed.loaded = key
    BY Zenon, <1>2, <1>7, LoadedJob
  <1>. HIDE DEF sealed
  <1>9. "insert" \in WriterPcs
    BY Zenon DEF WriterPcs
  <1>10. job \in ProcessRecords /\ job.pc = "insert" /\ job.conn = i /\ job.loaded = key
    BY <1>8, <1>9, NextJob
  <1>. HIDE DEF job
  <1>11. proc'[p] = job
    BY Zenon, <1>2, <1>6, OthersStay DEF HomeInv
  <1>12. WriterHolds(p)'
    BY Zenon, <1>1, <1>4, <1>5, <1>7, <1>10, <1>11 DEF WriterHolds
  <1>13. transportKey' \in Made \cup {"absent", "torn"}
    BY Zenon, <1>1 DEF HomeInv, HomeTypes
  <1>14. i = database => InUse \/ StoreOpens
    <2>1. i = database => database # "absent"
      BY Zenon, <1>4, Names DEF HomeInv, HomeTypes
    <2>. QED BY Zenon, <1>3, <2>1 DEF InUse
  <1>. QED BY Zenon, <1>1, <1>2, <1>5, <1>6, <1>7, <1>9, <1>10, <1>12, <1>13, <1>14, OtherStep

(* The row a writer inserts is sealed with the key on disk.                   *)
LEMMA InsertRowKeeps ==
    ASSUME HomeInv, NEW p \in Writer, InsertRow(p)
    PROVE  HomeInv'
  <1>. DEFINE i == proc[p].conn
              R == stores[i].rows \cup {proc[p].loaded}
              rec == [stores[i] EXCEPT !.rows = R]
              job == [IdleProcess EXCEPT !.pc = "done"]
  <1>1. /\ proc[p].pc = "insert" /\ stores' = [stores EXCEPT ![i] = rec]
        /\ UNCHANGED <<defaults, registry, storageKey, identityKey, database, transportKey>>
    BY Zenon DEF InsertRow, ProcessAt
  <1>2. proc' = [proc EXCEPT ![p] = job] /\ UNCHANGED <<lastInit, collided>>
    BY Zenon, Names DEF InsertRow, EndProcess
  <1>3. p \in Process /\ p \notin InitProcess /\ p \notin TransportUser
    BY Zenon, Names
  <1>4. Writing(p) /\ WriterHolds(p)
    BY Zenon, <1>1 DEF HomeInv, Writing
  <1>5. /\ i \in DOMAIN stores /\ stores[i].mode # "none"
        /\ stores[i].mode = "encrypted" => proc[p].loaded \in Made
        /\ stores[i].mode = "plaintext" => proc[p].loaded = "plain"
    BY Zenon, <1>1, <1>4 DEF WriterHolds
  <1>6. stores[i] \in StoreRecords
    BY Zenon, <1>5 DEF HomeInv, HomeTypes
  <1>7. /\ R \in SUBSET (Made \cup {"plain"}) /\ R # {}
        /\ stores[i].mode = "encrypted" => "plain" \notin R
        /\ stores[i].mode = "plaintext" => R = {"plain"}
    <2>1. RowsFit(i)
      BY Zenon, <1>5 DEF HomeInv
    <2>2. stores[i].mode \in {"encrypted", "plaintext"} /\ stores[i].rows \subseteq Made \cup {"plain"}
      BY Zenon, <1>5, <1>6 DEF StoreRecords, Modes
    <2>. QED BY Zenon, <1>5, <2>1, <2>2, Names DEF RowsFit
  <1>8. /\ rec \in StoreRecords /\ rec.schema = stores[i].schema /\ rec.mode = stores[i].mode
        /\ rec.nodes = stores[i].nodes /\ rec.private = stores[i].private /\ rec.rows = R
    BY <1>6, <1>7, RowsWritten
  <1>9. "done" \in EndedInit /\ "done" \in WriterPcs /\ "done" \notin {"seal", "insert"}
    BY Zenon DEF EndedInit, WriterPcs
  <1>10. job \in ProcessRecords /\ job.pc = "done"
    BY Zenon, <1>9, EndJob
  <1>. HIDE DEF rec, job
  <1>11. /\ DOMAIN stores' = DOMAIN stores /\ stores'[i] = rec
         /\ \A j \in DOMAIN stores : j # i => stores'[j] = stores[j]
    BY Zenon, <1>1, <1>5
  <1>12. \A j \in DOMAIN stores :
             /\ stores'[j].schema = stores[j].schema /\ stores'[j].mode = stores[j].mode
             /\ stores'[j].nodes = stores[j].nodes /\ stores'[j].private = stores[j].private
    BY Zenon, <1>8, <1>11
  <1>13. StoreOpens' <=> StoreOpens
    <2>1. CASE database = "absent"
      BY Zenon, <1>1, <2>1, OpensMeans, OpensMeansNext
    <2>2. CASE database # "absent"
      <3>1. database \in DOMAIN stores
        BY Zenon, <2>2 DEF HomeInv, HomeTypes
      <3>. QED BY Zenon, <1>1, <1>12, <3>1, OpensMeans, OpensMeansNext
    <2>. QED BY Zenon, <2>1, <2>2
  <1>14. /\ proc'[p] = job
         /\ \A q \in Process : q # p => proc'[q] = proc[q]
         /\ proc' \in [Process -> ProcessRecords]
    BY Zenon, <1>2, <1>3, <1>10, OthersStay DEF HomeInv
  <1>15. \A q \in InitProcess : proc'[q] = proc[q] /\ InProgress(q)' = InProgress(q)
    BY Zenon, <1>3, <1>14, Names DEF InProgress
  <1>16. HomeTypes'
    <2>1. /\ \A q \in InitProcess : proc'[q].pc \in InitPcs
          /\ \A q \in Writer : proc'[q].pc \in WriterPcs
          /\ \A q \in TransportUser : proc'[q].pc \in TransportPcs
      BY Zenon, <1>3, <1>9, <1>10, <1>14, <1>15, Names DEF HomeInv, HomeTypes
    <2>2. \A j \in DOMAIN stores' : stores'[j] \in StoreRecords
      BY Zenon, <1>8, <1>11 DEF HomeInv, HomeTypes
    <2>. QED BY ZenonT(30), <1>1, <1>2, <1>11, <1>14, <2>1, <2>2 DEF HomeTypes, HomeInv
  <1>17. \A q \in InitProcess : InitHolds(q)'
    BY Zenon, <1>11, <1>15 DEF HomeInv, InitHolds
  <1>18. \A w \in Writer : Writing(w)' => w # p /\ proc'[w] = proc[w] /\ Writing(w)
    BY Zenon, <1>9, <1>10, <1>14, Names DEF Writing
  <1>19. \A w \in Writer : WriterHolds(w)'
    <2>. SUFFICES ASSUME NEW w \in Writer, Writing(w)' PROVE WriterHolds(w)'
      BY Zenon DEF WriterHolds
    <2>1. proc'[w] = proc[w] /\ Writing(w) /\ WriterHolds(w)
      BY Zenon, <1>18 DEF HomeInv
    <2>2. proc[w].conn \in DOMAIN stores
      BY Zenon, <2>1 DEF WriterHolds
    <2>3. stores'[proc[w].conn].mode = stores[proc[w].conn].mode
      BY Zenon, <1>12, <2>2
    <2>. QED BY Zenon, <1>1, <1>11, <2>1, <2>2, <2>3 DEF WriterHolds
  <1>20. \A j \in DOMAIN stores' : RowsFit(j)'
    <2>. SUFFICES ASSUME NEW j \in DOMAIN stores' PROVE RowsFit(j)'
      BY Zenon
    <2>1. CASE j = i
      <3>1. stores'[j].rows = R /\ stores'[j].mode = stores[i].mode
        BY Zenon, <1>8, <1>11, <2>1
      <3>. QED BY Zenon, <1>5, <1>7, <3>1 DEF RowsFit
    <2>2. CASE j # i
      <3>1. stores'[j] = stores[j] /\ RowsFit(j)
        BY Zenon, <1>11, <2>2 DEF HomeInv
      <3>. QED BY Zenon, <3>1 DEF RowsFit
    <2>. QED BY Zenon, <2>1, <2>2
  <1>21. LastInitOpens'
    BY Zenon, <1>2, <1>13, <1>15 DEF LastInitOpens, HomeInv
  <1>22. ASSUME ~collided PROVE Undisturbed'
    <2>1. Undisturbed
      BY Zenon, <1>22 DEF HomeInv
    <2>2. database # "absent" => database \in DOMAIN stores
      BY Zenon DEF HomeInv, HomeTypes
    <2>3. ASSUME NEW q \in InitProcess PROVE InitRelies(q)'
      <3>1. InitRelies(q) /\ proc'[q] = proc[q] /\ InitHolds(q)
        BY Zenon, <1>15, <2>1 DEF Undisturbed, HomeInv
      <3>2. database # "absent" => stores'[database].mode = stores[database].mode
                                   /\ stores'[database].nodes = stores[database].nodes
        BY Zenon, <1>12, <2>2
      <3>3. proc[q].pc \in BeforeProjection /\ proc[q].conn = database =>
                stores'[database].nodes = stores[database].nodes
        BY Zenon, <1>12, <3>1, Stages DEF InitHolds
      <3>. QED BY Zenon, <1>1, <3>1, <3>2, <3>3 DEF InitRelies
    <2>4. \A q, r \in InitProcess :
              q # r /\ InProgress(q)' /\ InProgress(r)' => {q, r} \subseteq OperatorInit /\ StoreOpens'
      BY Zenon, <1>13, <1>15, <2>1 DEF Undisturbed
    <2>5. ASSUME InUse' PROVE StoreOpens
      <3>1. database # "absent" /\ database \in DOMAIN stores
        BY Zenon, <1>1, <2>2, <2>5 DEF InUse
      <3>2. CASE i = database
        BY Zenon, <1>4, <2>1, <3>1, <3>2 DEF Undisturbed, InUse
      <3>3. CASE i # database
        <4>1. stores'[database].rows = stores[database].rows
          BY Zenon, <1>11, <3>1, <3>3
        <4>2. InUse
          BY Zenon, <1>1, <1>18, <2>5, <3>1, <4>1 DEF InUse
        <4>. QED BY Zenon, <2>1, <4>2 DEF Undisturbed
      <3>. QED BY Zenon, <3>2, <3>3
    <2>6. ASSUME database # "absent", stores'[database].mode = "encrypted"
          PROVE  stores'[database].rows \subseteq {storageKey}
      <3>1. stores[database].mode = "encrypted" /\ database \in DOMAIN stores
        BY Zenon, <1>12, <2>2, <2>6
      <3>2. stores[database].rows \subseteq {storageKey}
        BY Zenon, <2>1, <2>6, <3>1 DEF Undisturbed
      <3>3. CASE i = database
        <4>1. proc[p].loaded = storageKey
          BY Zenon, <1>1, <2>1, <3>1, <3>3 DEF Undisturbed
        <4>. QED BY Zenon, <1>8, <1>11, <3>2, <3>3, <4>1
      <3>4. CASE i # database
        BY Zenon, <1>11, <3>1, <3>2, <3>4
      <3>. QED BY Zenon, <3>3, <3>4
    <2>7. ASSUME NEW w \in Writer, proc'[w].pc = "insert", stores'[proc'[w].conn].mode = "encrypted"
          PROVE  proc'[w].loaded = storageKey
      <3>1. proc'[w] = proc[w] /\ WriterHolds(w) /\ Writing(w)
        BY Zenon, <1>18, <2>7 DEF HomeInv, Writing
      <3>2. stores[proc[w].conn].mode = "encrypted"
        BY Zenon, <1>12, <2>7, <3>1 DEF WriterHolds
      <3>. QED BY Zenon, <2>1, <2>7, <3>1, <3>2 DEF Undisturbed
    <2>. QED BY Zenon, <1>1, <1>13, <2>3, <2>4, <2>5, <2>6, <2>7 DEF Undisturbed
  <1>. QED BY Zenon, <1>2, <1>16, <1>17, <1>19, <1>20, <1>21, <1>22 DEF HomeInv

-----------------------------------------------------------------------------
(* The daemons and the libp2p key.                                            *)
LEMMA OpenTransportKeyKeeps ==
    ASSUME HomeInv, NEW p \in TransportUser, OpenTransportKey(p)
    PROVE  HomeInv'
  <1>1. /\ UNCHANGED <<defaults, registry, storageKey, identityKey, database, stores>>
        /\ p \in Process /\ p \notin InitProcess /\ p \notin Writer
    BY Zenon, Names DEF OpenTransportKey
  <1>2. proc[p] \in ProcessRecords /\ transportKey \in Made \cup {"absent", "torn"}
    BY Zenon, <1>1 DEF HomeInv, HomeTypes
  <1>3. "writekey" \in TransportPcs /\ "serving" \in TransportPcs /\ "failed" \in EndedInit
    BY Zenon DEF TransportPcs, EndedInit
  <1>4. CASE transportKey = "absent" /\ transportKey' = "torn" /\ ProcessGoto(p, "writekey") /\ Continues
    <2>. DEFINE job == [proc[p] EXCEPT !.pc = "writekey"]
    <2>1. job \in ProcessRecords /\ job.pc = "writekey"
      BY Zenon, <1>2, <1>3, NextJob
    <2>2. proc' = [proc EXCEPT ![p] = job] /\ UNCHANGED <<lastInit, collided>>
      BY Zenon, <1>4 DEF ProcessGoto, Continues
    <2>. HIDE DEF job
    <2>3. transportKey' \in Made \cup {"absent", "torn"}
      BY Zenon, <1>4
    <2>. QED BY Zenon, <1>1, <1>3, <2>1, <2>2, <2>3, OtherStep
  <1>5. CASE UNCHANGED transportKey /\ EndProcess(p, "failed")
    <2>1. /\ proc' = [proc EXCEPT ![p] = [IdleProcess EXCEPT !.pc = "failed"]]
          /\ UNCHANGED <<lastInit, collided>>
      BY Zenon, <1>1, <1>5 DEF EndProcess
    <2>2. UNCHANGED fileVars
      BY Zenon, <1>1, <1>5 DEF fileVars
    <2>. QED BY Zenon, <1>3, <2>1, <2>2, OtherLeaves
  <1>6. CASE /\ transportKey \in Made /\ UNCHANGED transportKey
             /\ GotoWith(p, "serving", Loaded(p, transportKey)) /\ Continues
    <2>. DEFINE loaded == [proc[p] EXCEPT !.loaded = transportKey]
                job == [loaded EXCEPT !.pc = "serving"]
    <2>1. proc' = [proc EXCEPT ![p] = job] /\ UNCHANGED <<lastInit, collided>>
      BY Zenon, <1>6 DEF GotoWith, Loaded, Continues
    <2>2. loaded \in ProcessRecords
      BY Zenon, <1>2, <1>6, LoadedJob
    <2>. HIDE DEF loaded
    <2>3. job \in ProcessRecords /\ job.pc = "serving"
      BY Zenon, <1>3, <2>2, NextJob
    <2>. HIDE DEF job
    <2>4. transportKey' \in Made \cup {"absent", "torn"}
      BY Zenon, <1>2, <1>6
    <2>. QED BY Zenon, <1>1, <1>3, <2>1, <2>3, <2>4, OtherStep
  <1>. QED BY Zenon, <1>4, <1>5, <1>6 DEF OpenTransportKey

LEMMA WriteTransportKeyKeeps ==
    ASSUME HomeInv, NEW p \in TransportUser, WriteTransportKey(p)
    PROVE  HomeInv'
  <1>. DEFINE loaded == [proc[p] EXCEPT !.loaded = p]
              job == [loaded EXCEPT !.pc = "serving"]
  <1>1. /\ transportKey' = p /\ proc' = [proc EXCEPT ![p] = job]
        /\ UNCHANGED <<defaults, registry, storageKey, identityKey, database, stores, lastInit, collided>>
    BY Zenon DEF WriteTransportKey, GotoWith, Loaded, Continues
  <1>2. p \in Process /\ p \in Made /\ p \notin Writer /\ proc[p] \in ProcessRecords
    BY Zenon, Names DEF HomeInv, HomeTypes
  <1>3. loaded \in ProcessRecords
    BY Zenon, <1>2, LoadedJob
  <1>. HIDE DEF loaded
  <1>4. "serving" \in TransportPcs
    BY Zenon DEF TransportPcs
  <1>5. job \in ProcessRecords /\ job.pc = "serving"
    BY Zenon, <1>3, <1>4, NextJob
  <1>. HIDE DEF job
  <1>6. transportKey' \in Made \cup {"absent", "torn"}
    BY Zenon, <1>1, <1>2
  <1>. QED BY Zenon, <1>1, <1>2, <1>4, <1>5, <1>6, OtherStep

LEMMA KillProcessKeeps ==
    ASSUME HomeInv, NEW p \in Process, KillProcess(p)
    PROVE  HomeInv'
  <1>1. /\ InProgress(p) /\ UNCHANGED fileVars /\ collided' = collided
        /\ proc' = [proc EXCEPT ![p] = [IdleProcess EXCEPT !.pc = "killed"]]
        /\ lastInit' = IF p \in InitProcess THEN "killed" ELSE lastInit
    BY Zenon DEF KillProcess
  <1>2. "killed" \in EndedInit /\ "killed" # "done"
    BY Zenon DEF EndedInit
  <1>3. CASE p \in InitProcess
    BY Zenon, <1>1, <1>2, <1>3, QuietTame, LeaveStep
  <1>4. CASE p \notin InitProcess
    <2>1. p \in Writer \cup TransportUser /\ lastInit' = lastInit
      BY Zenon, <1>1, <1>4 DEF Process
    <2>. QED BY Zenon, <1>1, <1>2, <2>1, OtherLeaves
  <1>. QED BY Zenon, <1>3, <1>4

-----------------------------------------------------------------------------
LEMMA HomeStart == ASSUME HomeInit PROVE HomeInv /\ KeyInv
  <1>1. PICK established \in BOOLEAN :
          /\ defaults = (IF established THEN "encrypted" ELSE "absent")
          /\ registry = established
          /\ storageKey = (IF established THEN "old" ELSE "absent")
          /\ identityKey = (IF established THEN "old" ELSE "absent")
          /\ database = (IF established THEN "old" ELSE "absent")
          /\ transportKey = (IF established THEN "old" ELSE "absent")
          /\ stores = (IF established THEN [i \in {"old"} |-> CompleteStore]
                       ELSE [i \in {} |-> NewFile])
    BY Zenon DEF HomeInit
  <1>2. PICK cast \in Casts :
          proc = [p \in Process |-> IF p \in cast THEN IdleProcess
                                    ELSE [IdleProcess EXCEPT !.pc = "done"]]
    BY Zenon DEF HomeInit
  <1>3. lastInit = "none" /\ collided = FALSE
    BY Zenon DEF HomeInit
  <1>4. "old" \in Made /\ "old" # "absent" /\ "old" \notin Process
    BY Zenon, HomeAssumption DEF Made, Process, InitProcess
  <1>5. /\ CompleteStore \in StoreRecords /\ CompleteStore.schema = TRUE /\ CompleteStore.private = TRUE
        /\ CompleteStore.mode = "encrypted" /\ CompleteStore.nodes = {"old"} /\ CompleteStore.rows = {"old"}
    BY Zenon, <1>4 DEF CompleteStore, StoreRecords, Modes
  <1>6. /\ IdleProcess \in ProcessRecords /\ IdleProcess.pc = "idle" /\ IdleProcess.replace = FALSE
        /\ [IdleProcess EXCEPT !.pc = "done"] \in ProcessRecords
        /\ [IdleProcess EXCEPT !.pc = "done"].pc = "done"
        /\ [IdleProcess EXCEPT !.pc = "done"].replace = FALSE
    BY Zenon DEF IdleProcess, ProcessRecords, InitPcs, EndedInit
  <1>7. /\ proc \in [Process -> ProcessRecords]
        /\ \A p \in Process : proc[p].pc \in {"idle", "done"} /\ proc[p].replace = FALSE
    BY Zenon, <1>2, <1>6
  <1>8. /\ DOMAIN stores \subseteq {"old"}
        /\ \A i \in DOMAIN stores : stores[i] = CompleteStore
        /\ database # "absent" => /\ database = "old" /\ database \in DOMAIN stores
                                  /\ stores[database] = CompleteStore
                                  /\ storageKey = "old" /\ identityKey = "old"
                                  /\ defaults = "encrypted" /\ registry = TRUE
    <2>1. CASE established = TRUE
      BY Zenon, <1>1, <1>4, <2>1
    <2>2. CASE established = FALSE
      BY Zenon, <1>1, <1>4, <2>2
    <2>. QED BY Zenon, <2>1, <2>2
  <1>9. HomeTypes
    <2>1. /\ defaults \in Modes \cup {"absent", "empty"} /\ registry \in BOOLEAN
          /\ storageKey \in Made \cup {"absent"} /\ identityKey \in Made \cup {"absent"}
          /\ database \in Made \cup {"absent"} /\ transportKey \in Made \cup {"absent", "torn"}
      <3>1. CASE established = TRUE
        BY Zenon, <1>1, <1>4, <3>1 DEF Modes
      <3>2. CASE established = FALSE
        BY Zenon, <1>1, <1>4, <3>2
      <3>. QED BY Zenon, <3>1, <3>2
    <2>2. /\ \A p \in InitProcess : proc[p].pc \in InitPcs
          /\ \A p \in Writer : proc[p].pc \in WriterPcs
          /\ \A p \in TransportUser : proc[p].pc \in TransportPcs
      BY Zenon, <1>7, Names DEF InitPcs, WriterPcs, TransportPcs, EndedInit
    <2>3. lastInit \in {"none", "done", "failed", "killed"} /\ collided \in BOOLEAN
      BY Zenon, <1>3
    <2>4. DOMAIN stores \subseteq Made /\ \A i \in DOMAIN stores : stores[i] \in StoreRecords
      BY Zenon, <1>4, <1>5, <1>8
    <2>. QED BY Zenon, <1>7, <1>8, <2>1, <2>2, <2>3, <2>4 DEF HomeTypes
  <1>10. {"idle", "done"} \subseteq Ended /\ "done" \notin {"seal", "insert", "writekey", "serving"}
         /\ "idle" \notin {"seal", "insert", "writekey", "serving"}
    BY Zenon DEF Ended
  <1>11. \A p \in Process :
             /\ proc[p].pc \in Ended /\ ~InProgress(p) /\ proc[p].pc \notin BeforeConnect
             /\ proc[p].pc \notin AfterConnect /\ ~Writing(p)
             /\ proc[p].pc # "writekey" /\ proc[p].pc # "serving"
    <2>1. \A p \in Process : proc[p].pc \in Ended /\ proc[p].pc \notin {"seal", "insert", "writekey", "serving"}
      BY Zenon, <1>7, <1>10
    <2>. QED BY Zenon, <2>1, Stages DEF InProgress, Writing
  <1>12. \A p \in InitProcess : InitHolds(p)
    BY <1>4, <1>7, <1>8, <1>11, Names, Stages DEF InitHolds
  <1>13. \A w \in Writer : WriterHolds(w)
    BY Zenon, <1>11, Names DEF WriterHolds
  <1>14. \A i \in DOMAIN stores : RowsFit(i)
    BY <1>4, <1>5, <1>8, HomeAssumption DEF RowsFit
  <1>15. LastInitOpens
    BY Zenon, <1>3 DEF LastInitOpens
  <1>16. database # "absent" => StoreOpens
    BY Zenon, <1>4, <1>5, <1>8, OpensMeans
  <1>17. Undisturbed
    <2>1. \A p \in InitProcess : InitRelies(p)
      BY Zenon, <1>11, Names, Stages DEF InitRelies
    <2>2. InUse => StoreOpens
      BY Zenon, <1>16 DEF InUse
    <2>3. database # "absent" => stores[database].rows \subseteq {storageKey}
      BY Zenon, <1>5, <1>8
    <2>4. \A w \in Writer : proc[w].pc # "insert"
      BY Zenon, <1>11, Names DEF Writing
    <2>. QED BY Zenon, <1>11, <2>1, <2>2, <2>3, <2>4, Names DEF Undisturbed
  <1>18. KeyInv
    BY Zenon, <1>9, <1>11, Names DEF KeyInv, HomeTypes
  <1>. QED BY Zenon, <1>9, <1>12, <1>13, <1>14, <1>15, <1>17, <1>18 DEF HomeInv

LEMMA HomeStutter == ASSUME HomeInv, UNCHANGED homeVars PROVE HomeInv'
  <1>1. /\ UNCHANGED <<defaults, registry, storageKey, identityKey, database, stores>>
        /\ UNCHANGED <<transportKey, proc, lastInit, collided>>
    BY Zenon DEF homeVars
  <1>2. StoreOpens' = StoreOpens
    BY Zenon, <1>1, SameFiles
  <1>3. HomeTypes'
    BY ZenonT(30), <1>1 DEF HomeInv, HomeTypes
  <1>4. \A p \in Process : InProgress(p)' = InProgress(p) /\ Writing(p)' = Writing(p)
    BY Zenon, <1>1 DEF InProgress, Writing
  <1>5. /\ \A p \in InitProcess : InitHolds(p)'
        /\ \A w \in Writer : WriterHolds(w)'
        /\ \A i \in DOMAIN stores' : RowsFit(i)'
    BY Zenon, <1>1, <1>4, Names DEF HomeInv, InitHolds, WriterHolds, RowsFit
  <1>6. LastInitOpens'
    BY Zenon, <1>1, <1>2, <1>4, Names DEF HomeInv, LastInitOpens
  <1>7. Undisturbed => Undisturbed'
    <2>1. \A p \in InitProcess : InitRelies(p)' = InitRelies(p)
      BY Zenon, <1>1 DEF InitRelies
    <2>2. InUse' = InUse
      BY Zenon, <1>1, <1>4, Names DEF InUse
    <2>. QED BY Zenon, <1>1, <1>2, <1>4, <2>1, <2>2, Names DEF Undisturbed
  <1>. QED BY Zenon, <1>1, <1>3, <1>5, <1>6, <1>7 DEF HomeInv

LEMMA HomeStep == ASSUME HomeInv, [HomeNext]_homeVars PROVE HomeInv'
  <1>1. CASE UNCHANGED homeVars
    BY Zenon, <1>1, HomeStutter
  <1>2. ASSUME NEW p \in OperatorInit, BeginOperatorInit(p) PROVE HomeInv'
    BY Zenon, <1>2, BeginOperatorInitKeeps
  <1>3. ASSUME NEW p \in SqliteInit, BeginSqliteInit(p) PROVE HomeInv'
    BY Zenon, <1>3, BeginSqliteInitKeeps
  <1>4. ASSUME NEW p \in InitProcess,
               \/ SaveDefaults(p) \/ EnsureRegistry(p)
               \/ EnsureStorageKey(p) \/ CreateStorageKey(p)
               \/ ConnectDatastore(p) \/ BootstrapSchema(p)
               \/ ReadStorageMode(p) \/ SetStorageMode(p) \/ RestrictDatabase(p)
               \/ DropIdentity(p) \/ LoadIdentity(p) \/ CreateIdentity(p)
               \/ ForgetOtherNodes(p) \/ ProjectNode(p) \/ CheckIdentity(p)
               \/ SeedStore(p) \/ ValidateInstallation(p)
        PROVE  HomeInv'
    BY Zenon, <1>4, SaveDefaultsKeeps, EnsureRegistryKeeps, EnsureStorageKeyKeeps, CreateStorageKeyKeeps,
       ConnectDatastoreKeeps, BootstrapSchemaKeeps, ReadStorageModeKeeps, SetStorageModeKeeps,
       RestrictDatabaseKeeps, DropIdentityKeeps, LoadIdentityKeeps, CreateIdentityKeeps,
       ForgetOtherNodesKeeps, ProjectNodeKeeps, CheckIdentityKeeps, SeedStoreKeeps,
       ValidateInstallationKeeps
  <1>5. ASSUME NEW p \in Writer, OpenBackend(p) \/ SealPayload(p) \/ InsertRow(p) PROVE HomeInv'
    BY Zenon, <1>5, OpenBackendKeeps, SealPayloadKeeps, InsertRowKeeps
  <1>6. ASSUME NEW p \in TransportUser, OpenTransportKey(p) \/ WriteTransportKey(p) PROVE HomeInv'
    BY Zenon, <1>6, OpenTransportKeyKeeps, WriteTransportKeyKeeps
  <1>7. ASSUME NEW p \in Process, KillProcess(p) PROVE HomeInv'
    BY Zenon, <1>7, KillProcessKeeps
  <1>. QED BY Zenon, <1>1, <1>2, <1>3, <1>4, <1>5, <1>6, <1>7 DEF HomeNext

(* Whatever inits, writers, daemons and kills interleave, the store's files   *)
(* stay consistent with what the processes in the middle of their work hold,  *)
(* and while no two inits create files at once, with what they rely on.       *)
(* (provision_sqlite_datastore, ensure_sqlite_storage_key, open_sqlite_backend) *)
THEOREM HomeInvariance == HomeSpec => []HomeInv
  <1>1. HomeInit => HomeInv
    BY Zenon, HomeStart
  <1>2. HomeInv /\ [HomeNext]_homeVars => HomeInv'
    BY Zenon, HomeStep
  <1>. QED BY <1>1, <1>2, PTL DEF HomeSpec

(* The files, databases and outcomes keep their types: in particular the      *)
(* local node of a database is one of the identities this home generated.     *)
THEOREM HomeTypeCorrect == HomeSpec => []HomeTypeOK
  <1>1. HomeInv => HomeTypeOK
    <2>. SUFFICES ASSUME HomeInv PROVE HomeTypeOK
      BY Zenon
    <2>1. \A i \in DOMAIN stores :
              /\ stores[i].mode \in Modes \cup {"none"}
              /\ stores[i].nodes \subseteq Made
              /\ stores[i].rows \subseteq Made \cup {"plain"}
      BY Zenon DEF HomeInv, HomeTypes, StoreRecords
    <2>2. {storageKey, identityKey, database} \subseteq Made \cup {"absent"}
      BY Zenon DEF HomeInv, HomeTypes
    <2>. QED BY Zenon, <2>1, <2>2 DEF HomeInv, HomeTypes, HomeTypeOK
  <1>. QED BY <1>1, HomeInvariance, PTL

(* Secrets survive whatever the inits of an account do to its store: they can *)
(* be decrypted with the key on disk, what init cannot rebuild is kept, no    *)
(* database mixes storage modes, and a reported success holds.                *)
(* (cmd_init_operator, cmd_init_sqlite, encrypt_payload)                      *)
THEOREM SecretsAreKept == HomeSpec => []SecretsSurvive
  <1>1. HomeInv => SecretsSurvive
    <2>. SUFFICES ASSUME HomeInv PROVE SecretsSurvive
      BY Zenon
    <2>1. ~collided => Undisturbed
      BY Zenon DEF HomeInv
    <2>2. ~collided /\ database # "absent" /\ stores[database].mode = "encrypted" =>
              stores[database].rows \subseteq {storageKey}
      BY Zenon, <2>1 DEF Undisturbed
    <2>3. ~collided /\ database # "absent" /\ stores[database].rows # {} =>
              /\ stores[database].private /\ stores[database].schema
              /\ identityKey # "absent"
      BY Zenon, <2>1, OpensMeans DEF Undisturbed, InUse
    <2>. QED BY Zenon, <2>2, <2>3 DEF HomeInv, RowsFit, LastInitOpens, SecretsSurvive
  <1>. QED BY <1>1, HomeInvariance, PTL

-----------------------------------------------------------------------------
(* The libp2p key is created once: O_CREAT | O_EXCL lets one process write    *)
(* it, and a file that is not written yet is refused.                         *)
LEMMA KeyKept ==
    ASSUME HomeInv, KeyInv, NEW p \in Process, NEW job, proc' = [proc EXCEPT ![p] = job],
           transportKey' = transportKey,
           p \in TransportUser => /\ job.pc # "writekey"
                                  /\ job.pc = "serving" => job.loaded = transportKey /\ transportKey \in Made
    PROVE  KeyInv'
  <1>1. proc'[p] = job /\ \A q \in Process : q # p => proc'[q] = proc[q]
    BY Zenon, OthersStay DEF HomeInv
  <1>. QED BY ZenonT(30), <1>1, Names DEF KeyInv

LEMMA KeyEnds ==
    ASSUME HomeInv, KeyInv, NEW p \in Process, NEW outcome \in EndedInit, transportKey' = transportKey,
           proc' = [proc EXCEPT ![p] = [IdleProcess EXCEPT !.pc = outcome]]
    PROVE  KeyInv'
  <1>. DEFINE job == [IdleProcess EXCEPT !.pc = outcome]
  <1>1. job.pc = outcome /\ outcome # "writekey" /\ outcome # "serving"
    BY Zenon, EndJob DEF EndedInit
  <1>2. proc' = [proc EXCEPT ![p] = job]
    BY Zenon
  <1>. HIDE DEF job
  <1>. QED BY Zenon, <1>1, <1>2, KeyKept

LEMMA KeyStep == ASSUME HomeInv, KeyInv, [HomeNext]_homeVars PROVE KeyInv'
  <1>1. CASE UNCHANGED homeVars
    BY Zenon, <1>1 DEF homeVars, KeyInv
  <1>2. ASSUME NEW p \in InitProcess \cup Writer, transportKey' = transportKey,
               NEW job, proc' = [proc EXCEPT ![p] = job]
        PROVE  KeyInv'
    BY Zenon, <1>2, KeyKept, Names
  <1>3. ASSUME NEW p \in TransportUser, OpenTransportKey(p) PROVE KeyInv'
    <2>1. p \in Process /\ proc[p] \in ProcessRecords
      BY Zenon, Names DEF HomeInv, HomeTypes
    <2>2. "writekey" \in TransportPcs /\ "serving" \in TransportPcs /\ "failed" \in EndedInit
      BY Zenon DEF TransportPcs, EndedInit
    <2>3. CASE transportKey = "absent" /\ transportKey' = "torn" /\ ProcessGoto(p, "writekey")
      <3>. DEFINE job == [proc[p] EXCEPT !.pc = "writekey"]
      <3>1. job.pc = "writekey" /\ proc' = [proc EXCEPT ![p] = job]
        BY Zenon, <2>1, <2>2, <2>3, NextJob DEF ProcessGoto
      <3>. HIDE DEF job
      <3>2. proc'[p] = job /\ \A q \in Process : q # p => proc'[q] = proc[q]
        BY Zenon, <2>1, <3>1, OthersStay DEF HomeInv
      <3>3. "absent" # "torn" /\ "absent" \notin Made /\ "writekey" # "serving"
        BY Zenon, Names
      <3>4. \A q \in TransportUser : proc[q].pc # "writekey" /\ proc[q].pc # "serving"
        BY Zenon, <2>3, <3>3 DEF KeyInv
      <3>5. transportKey' \in Made \cup {"absent", "torn"}
        BY Zenon, <2>3
      <3>. QED BY ZenonT(30), <2>3, <3>1, <3>2, <3>3, <3>4, <3>5, Names DEF KeyInv
    <2>4. CASE UNCHANGED transportKey /\ EndProcess(p, "failed")
      <3>1. proc' = [proc EXCEPT ![p] = [IdleProcess EXCEPT !.pc = "failed"]]
        BY Zenon, <2>4 DEF EndProcess
      <3>. QED BY Zenon, <2>1, <2>2, <2>4, <3>1, KeyEnds
    <2>5. CASE /\ transportKey \in Made /\ UNCHANGED transportKey
               /\ GotoWith(p, "serving", Loaded(p, transportKey))
      <3>. DEFINE loaded == [proc[p] EXCEPT !.loaded = transportKey]
                  job == [loaded EXCEPT !.pc = "serving"]
      <3>1. loaded \in ProcessRecords /\ loaded.loaded = transportKey
        BY Zenon, <2>1, <2>5, LoadedJob
      <3>2. proc' = [proc EXCEPT ![p] = job]
        BY Zenon, <2>5 DEF GotoWith, Loaded
      <3>. HIDE DEF loaded
      <3>3. job.pc = "serving" /\ job.loaded = transportKey /\ "serving" # "writekey"
        BY Zenon, <2>2, <3>1, NextJob
      <3>. HIDE DEF job
      <3>. QED BY Zenon, <2>1, <2>5, <3>2, <3>3, KeyKept
    <2>. QED BY Zenon, <1>3, <2>3, <2>4, <2>5 DEF OpenTransportKey
  <1>4. ASSUME NEW p \in TransportUser, WriteTransportKey(p) PROVE KeyInv'
    <2>. DEFINE loaded == [proc[p] EXCEPT !.loaded = p]
                job == [loaded EXCEPT !.pc = "serving"]
    <2>1. p \in Process /\ p \in Made /\ proc[p] \in ProcessRecords
      BY Zenon, Names DEF HomeInv, HomeTypes
    <2>2. proc[p].pc = "writekey" /\ transportKey' = p /\ proc' = [proc EXCEPT ![p] = job]
      BY Zenon, <1>4 DEF WriteTransportKey, ProcessAt, GotoWith, Loaded
    <2>3. loaded \in ProcessRecords /\ loaded.loaded = p
      BY Zenon, <2>1, LoadedJob
    <2>. HIDE DEF loaded
    <2>4. job.pc = "serving" /\ job.loaded = p /\ "serving" # "writekey"
      BY Zenon, <2>3, NextJob DEF TransportPcs
    <2>. HIDE DEF job
    <2>5. proc'[p] = job /\ \A q \in Process : q # p => proc'[q] = proc[q]
      BY Zenon, <2>1, <2>2, OthersStay DEF HomeInv
    <2>6. \A q \in TransportUser : q # p => proc[q].pc # "writekey"
      BY Zenon, <2>2 DEF KeyInv
    <2>7. transportKey = "torn" /\ "torn" \notin Made
      BY Zenon, <2>2, Names DEF KeyInv
    <2>8. \A q \in TransportUser : proc[q].pc # "serving"
      BY Zenon, <2>7 DEF KeyInv
    <2>9. transportKey' \in Made \cup {"absent", "torn"}
      BY Zenon, <2>1, <2>2
    <2>. QED BY ZenonT(30), <2>1, <2>2, <2>4, <2>5, <2>6, <2>8, <2>9, Names DEF KeyInv
  <1>5. ASSUME NEW p \in Process, KillProcess(p) PROVE KeyInv'
    <2>1. /\ proc' = [proc EXCEPT ![p] = [IdleProcess EXCEPT !.pc = "killed"]]
          /\ transportKey' = transportKey
      BY Zenon, <1>5 DEF KillProcess, fileVars
    <2>. QED BY Zenon, <2>1, KeyEnds DEF EndedInit
  <1>6. ASSUME NEW p \in InitProcess, BeginOperatorInit(p) \/ BeginSqliteInit(p) PROVE KeyInv'
    BY Zenon, <1>2, <1>6 DEF BeginOperatorInit, BeginSqliteInit, EndProcess, ProcessGoto, GotoWith, fileVars
  <1>7. ASSUME NEW p \in InitProcess,
               \/ SaveDefaults(p) \/ EnsureRegistry(p) \/ EnsureStorageKey(p) \/ CreateStorageKey(p)
               \/ ConnectDatastore(p) \/ BootstrapSchema(p)
        PROVE  KeyInv'
    BY Zenon, <1>2, <1>7 DEF SaveDefaults, EnsureRegistry, EnsureStorageKey, CreateStorageKey,
       ConnectDatastore, BootstrapSchema, ProcessGoto, GotoWith, fileVars
  <1>8. ASSUME NEW p \in InitProcess,
               \/ ReadStorageMode(p) \/ SetStorageMode(p) \/ RestrictDatabase(p)
               \/ DropIdentity(p) \/ LoadIdentity(p) \/ CreateIdentity(p)
        PROVE  KeyInv'
    BY Zenon, <1>2, <1>8 DEF ReadStorageMode, SetStorageMode, RestrictDatabase, DropIdentity,
       LoadIdentity, CreateIdentity, ProcessGoto, GotoWith, EndProcess, fileVars
  <1>9. ASSUME NEW p \in InitProcess,
               \/ ForgetOtherNodes(p) \/ ProjectNode(p) \/ CheckIdentity(p)
               \/ SeedStore(p) \/ ValidateInstallation(p)
        PROVE  KeyInv'
    BY Zenon, <1>2, <1>9 DEF ForgetOtherNodes, ProjectNode, CheckIdentity, SeedStore,
       ValidateInstallation, ProcessGoto, EndProcess, fileVars
  <1>10. ASSUME NEW p \in Writer, OpenBackend(p) \/ SealPayload(p) \/ InsertRow(p) PROVE KeyInv'
    BY Zenon, <1>2, <1>10 DEF OpenBackend, SealPayload, InsertRow, GotoWith, EndProcess, fileVars
  <1>. QED BY Zenon, <1>1, <1>3, <1>4, <1>5, <1>6, <1>7, <1>8, <1>9, <1>10, Names DEF HomeNext

(* However many daemons start at once and whichever of them is killed, those  *)
(* that serve use the libp2p key on disk.                                     *)
(* (_load_or_create_libp2p_identity)                                          *)
THEOREM OneTransportKey == HomeSpec => []OneTransportIdentity
  <1>1. HomeInit => KeyInv
    BY Zenon, HomeStart
  <1>2. HomeInv /\ KeyInv /\ [HomeNext]_homeVars => KeyInv'
    BY Zenon, KeyStep
  <1>3. KeyInv => OneTransportIdentity
    BY Zenon DEF KeyInv, OneTransportIdentity
  <1>. QED BY <1>1, <1>2, <1>3, HomeInvariance, PTL DEF HomeSpec

---------------------------------------------------------------------------
(***************************************************************************)
(* For any registry of users, any generations and any number of            *)
(* administrator commands: an activation of a runtime generation does what *)
(* it reports, and only users who joined the host are registered.          *)
(*                                                                         *)
(* The invariant follows an activation through its phases.  It says where  *)
(* the link runtime/current points, which daemons may run the candidate,   *)
(* and why each of them does: the command restarted it, its user did, or   *)
(* it ran it before.                                                       *)
(***************************************************************************)

AdminPcs == {"idle", "switch", "restart", "verify", "rollback", "restore"}
Outcomes == {"none", "unchanged", "changed", "restored", "killed"}
AdminRecord ==
    [pc : AdminPcs, gen : Runtimes \cup {NoRuntime}, previous : Runtimes \cup {NoRuntime},
     todo : SUBSET HostUser, completed : SUBSET HostUser, failures : SUBSET HostUser,
     outcome : Outcomes]

SharedTypes ==
    /\ running \in [HostUser -> Runtimes \cup {Down}]
    /\ current \in Runtimes \cup {NoRuntime}
    /\ users \subseteq HostUser
    /\ admin \in [Admin -> AdminRecord]

LockHeld ==
    /\ hostLock \in Admin \cup {"free"}
    /\ \A p \in Admin : (admin[p].pc # "idle") <=> (hostLock = p)

(* A membership row comes with its principal and its owner scopes.          *)
StoreRecord == [member : BOOLEAN, principals : Nat, scope : [Account -> {"none", "local", "host"}]]

StoresOK ==
    /\ store \in [HostUser -> StoreRecord]
    /\ \A u \in HostUser :
           /\ ~store[u].member => store[u].principals = 0
           /\ store[u].member => store[u].principals = 1 /\ \A a \in Account : store[u].scope[a] # "local"
    /\ \A u \in users : store[u].member

(* The phases of an activation a, with the link at link and the daemons     *)
(* running run; others are the daemons the command did not reach.           *)
OnCandidate(a, run, others) == {u \in HostUser : run[u] = a.gen} \ others

Phase(a, link, run, others) ==
    /\ a.pc = "switch" => link = a.previous /\ a.failures = {} /\ a.completed = {}
    /\ a.pc \in {"restart", "verify", "rollback"} =>
           /\ link = a.gen
           /\ users \subseteq a.todo \cup a.completed
    /\ a.pc # "idle" => a.gen \in Runtimes /\ a.gen # a.previous
    /\ a.pc \in {"verify", "rollback"} => a.todo # {}
    /\ a.pc = "restart" =>
           /\ \A u \in a.completed : run[u] \in {a.gen, Down}
           /\ OnCandidate(a, run, others) \cap users \subseteq a.completed
    /\ a.pc = "verify" =>
           /\ \A u \in a.completed \cup {FirstOf(a.todo)} : run[u] \in {a.gen, Down}
           /\ OnCandidate(a, run, others) \cap users \subseteq a.completed \cup {FirstOf(a.todo)}
    /\ a.pc = "rollback" =>
           OnCandidate(a, run, others) \cap users \subseteq a.completed \cup {FirstOf(a.todo)}
    /\ a.pc = "restore" =>
           /\ link = a.previous
           /\ OnCandidate(a, run, others) \cap users \subseteq a.failures \cup a.todo

Activations == \A p \in Admin : Phase(admin[p], current, running, notByAdmin)

HInv == SharedTypes /\ LockHeld /\ StoresOK /\ Activations

LOCAL INSTANCE WellFoundedInduction

-----------------------------------------------------------------------------
(* The loops over the registry have a next user as long as one is left.     *)
LEMMA FirstIsIn ==
    ASSUME NEW S, S \subseteq HostUser, S # {}
    PROVE  FirstOf(S) \in S
  <1>. DEFINE I == {i \in DOMAIN UserOrder : UserOrder[i] \in S}
  <1>1. DOMAIN UserOrder \subseteq Nat
    BY HostAssumption
  <1>2. I # {} /\ I \subseteq Nat
    BY Zenon, <1>1 DEF HostUser, Range
  <1>3. PICK i \in I : \A j \in I : ~ (<<j, i>> \in OpToRel(<, Nat))
    BY Zenon, <1>2, NatLessThanWellFounded, WFMin
  <1>4. \A j \in I : ~ (j < i)
    BY Zenon, <1>2, <1>3 DEF OpToRel
  <1>5. i \in DOMAIN UserOrder /\ UserOrder[i] \in S
        /\ \A j \in DOMAIN UserOrder : j < i => UserOrder[j] \notin S
    BY Zenon, <1>4
  <1>. QED BY Zenon, <1>5 DEF FirstOf

(* Outside activate_shared_generation the lock, the link, the registry of a *)
(* running activation and its daemons change only as a user may change them. *)
LEMMA PhaseKept ==
    ASSUME HInv, UNCHANGED <<admin, current, hostLock>>,
           users' = users \/ hostLock = "free",
           running' \in [HostUser -> Runtimes \cup {Down}],
           notByAdmin \subseteq notByAdmin',
           \A u \in HostUser : \/ running'[u] \in {running[u], Down}
                               \/ running'[u] = Launched /\ u \in notByAdmin'
    PROVE  Activations'
  <1>. SUFFICES ASSUME NEW p \in Admin PROVE Phase(admin[p], current, running, notByAdmin)'
    BY Zenon DEF Activations
  <1>1. Phase(admin[p], current, running, notByAdmin) /\ admin[p] \in AdminRecord
    BY Zenon DEF HInv, Activations, SharedTypes
  <1>2. CASE admin[p].pc = "idle"
    BY Zenon, <1>2 DEF Phase
  <1>3. CASE admin[p].pc # "idle"
    <2>1. users' = users
      BY Zenon, <1>3, HostAssumption DEF HInv, LockHeld
    <2>2. admin[p].gen \in Runtimes /\ admin[p].gen # Down
      BY Zenon, <1>1, <1>3, HostAssumption DEF Phase, Down
    <2>3. OnCandidate(admin[p], running', notByAdmin') \subseteq OnCandidate(admin[p], running, notByAdmin)
      BY Zenon, <1>1, <2>2 DEF OnCandidate
    <2>4. current = admin[p].gen =>
            \A u \in HostUser : running[u] \in {admin[p].gen, Down} => running'[u] \in {admin[p].gen, Down}
      BY Zenon, <2>2 DEF Launched
    <2>5. admin[p].todo # {} => FirstOf(admin[p].todo) \in HostUser
      BY Zenon, <1>1, FirstIsIn DEF AdminRecord
    <2>6. admin[p].completed \subseteq HostUser
      BY Zenon, <1>1 DEF AdminRecord
    <2>7. admin[p]' = admin[p] /\ current' = current
      BY Zenon
    <2>. QED BY ZenonT(30), <1>1, <2>1, <2>3, <2>4, <2>5, <2>6, <2>7 DEF Phase
  <1>. QED BY Zenon, <1>2, <1>3

-----------------------------------------------------------------------------
LEMMA HostInitOK == ASSUME HostInit PROVE HInv
  <1>1. NoAdmin \in AdminRecord /\ NoAdmin.pc = "idle"
    BY Zenon DEF NoAdmin, AdminRecord, AdminPcs, Outcomes
  <1>2. SharedTypes
    BY Zenon, <1>1 DEF HostInit, SharedTypes
  <1>3. LockHeld
    BY Zenon, <1>1, HostAssumption DEF HostInit, LockHeld
  <1>4. StoresOK
    BY Zenon DEF HostInit, StoresOK, StoreRecord
  <1>5. Activations
    BY Zenon, <1>1 DEF HostInit, Activations, Phase
  <1>. QED BY Zenon, <1>2, <1>3, <1>4, <1>5 DEF HInv

LEMMA StoreSet ==
    ASSUME HInv, NEW u \in HostUser, NEW rec \in StoreRecord, store' = [store EXCEPT ![u] = rec],
           users' = users, store[u].member => rec.member,
           ~rec.member => rec.principals = 0,
           rec.member => rec.principals = 1 /\ \A a \in Account : rec.scope[a] # "local"
    PROVE  StoresOK'
  <1>1. store' \in [HostUser -> StoreRecord]
    BY Zenon DEF HInv, StoresOK
  <1>2. store'[u] = rec /\ \A v \in HostUser \ {u} : store'[v] = store[v]
    BY Zenon DEF HInv, StoresOK
  <1>3. \A v \in HostUser :
          /\ ~store'[v].member => store'[v].principals = 0
          /\ store'[v].member => store'[v].principals = 1 /\ \A a \in Account : store'[v].scope[a] # "local"
    BY Zenon, <1>2 DEF HInv, StoresOK
  <1>4. \A v \in users : store'[v].member
    BY Zenon, <1>2 DEF HInv, StoresOK, SharedTypes
  <1>. QED BY Zenon, <1>1, <1>3, <1>4 DEF StoresOK

(* Joining, writing and what users do with their daemons.                   *)
LEMMA UserKeeps ==
    ASSUME HInv, NEW u \in HostUser,
           \/ JoinReads(u) \/ JoinTransaction(u) \/ (\E a \in Account : WriteAccount(u, a))
           \/ InstallUserService(u) \/ UserActs(u) \/ RegisterUser(u)
    PROVE  HInv'
  <1>0. Launched \in Runtimes \cup {Down}
    BY Zenon DEF HInv, SharedTypes, Launched
  <1>1. ASSUME UNCHANGED <<running, users, current, admin, hostLock, notByAdmin>>, StoresOK' PROVE HInv'
    <2>1. Activations'
      BY Zenon, <1>1, PhaseKept DEF HInv, SharedTypes
    <2>. QED BY Zenon, <1>1, <2>1 DEF HInv, SharedTypes, LockHeld
  <1>2. CASE JoinReads(u)
    BY Zenon, <1>1, <1>2 DEF JoinReads, HInv, StoresOK
  <1>3. CASE JoinTransaction(u)
    <2>1. CASE store[u].member
      BY Zenon, <1>1, <1>3, <2>1 DEF JoinTransaction, HInv, StoresOK
    <2>2. CASE ~store[u].member
      <3>. DEFINE scoped == [a \in Account |-> IF store[u].scope[a] = "local" THEN "host" ELSE store[u].scope[a]]
                  joined == [member |-> TRUE, principals |-> store[u].principals + 1, scope |-> scoped]
      <3>1. store' = [store EXCEPT ![u] = joined]
        BY Zenon, <1>3, <2>2 DEF JoinTransaction
      <3>2. scoped \in [Account -> {"none", "local", "host"}] /\ \A a \in Account : scoped[a] # "local"
        BY ZenonT(30) DEF HInv, StoresOK, StoreRecord
      <3>3. joined \in StoreRecord /\ joined.member = TRUE /\ joined.principals = 1 /\ joined.scope = scoped
        BY SMTT(30), Zenon, <2>2, <3>2 DEF HInv, StoresOK, StoreRecord
      <3>. HIDE DEF joined, scoped
      <3>4. StoresOK'
        BY Zenon, <1>3, <3>1, <3>2, <3>3, StoreSet DEF JoinTransaction
      <3>. QED BY Zenon, <1>1, <1>3, <3>4 DEF JoinTransaction
    <2>. QED BY Zenon, <2>1, <2>2
  <1>4. ASSUME NEW a \in Account, WriteAccount(u, a) PROVE HInv'
    <2>1. store' = [store EXCEPT ![u].scope[a] = OwnerScope(u)] /\ users' = users
      BY Zenon, <1>4 DEF WriteAccount
    <2>2. OwnerScope(u) \in {"host", "local"} /\ (store[u].member => OwnerScope(u) = "host")
      BY Zenon DEF OwnerScope
    <2>. DEFINE scoped == [store[u].scope EXCEPT ![a] = OwnerScope(u)]
                written == [store[u] EXCEPT !.scope = scoped]
    <2>3. store[u] \in StoreRecord
      BY Zenon DEF HInv, StoresOK
    <2>4. store' = [store EXCEPT ![u] = written]
      BY Zenon, <2>1
    <2>5. scoped \in [Account -> {"none", "local", "host"}]
          /\ \A b \in Account : scoped[b] \in {store[u].scope[b], OwnerScope(u)}
      BY Zenon, <2>2, <2>3 DEF StoreRecord
    <2>6. written \in StoreRecord /\ written.member = store[u].member /\ written.scope = scoped
          /\ written.principals = store[u].principals
      <3>. HIDE DEF scoped
      <3>. QED BY Zenon, <2>3, <2>5 DEF StoreRecord
    <2>. HIDE DEF written, scoped
    <2>7. StoresOK'
      <3>1. ~written.member => written.principals = 0
        BY Zenon, <2>6 DEF HInv, StoresOK
      <3>2. written.member => written.principals = 1 /\ \A b \in Account : written.scope[b] # "local"
        BY Zenon, <2>2, <2>5, <2>6 DEF HInv, StoresOK
      <3>. QED BY ZenonT(30), <2>1, <2>4, <2>6, <3>1, <3>2, StoreSet
    <2>. QED BY Zenon, <1>1, <1>4, <2>7 DEF WriteAccount
  <1>5. CASE InstallUserService(u) \/ UserActs(u)
    <2>1. running' \in {[running EXCEPT ![u] = Launched], [running EXCEPT ![u] = Down]}
      BY Zenon, <1>5 DEF InstallUserService, UserActs
    <2>2. running' \in [HostUser -> Runtimes \cup {Down}]
      BY Zenon, <1>0, <2>1 DEF HInv, SharedTypes
    <2>3. notByAdmin \subseteq notByAdmin' /\ UNCHANGED <<users, current, admin, hostLock, store>>
      BY Zenon, <1>5 DEF InstallUserService, UserActs
    <2>4. \A v \in HostUser : \/ running'[v] \in {running[v], Down}
                              \/ running'[v] = Launched /\ v \in notByAdmin'
      BY Zenon, <1>5 DEF InstallUserService, UserActs, HInv, SharedTypes
    <2>5. Activations'
      BY Zenon, <2>2, <2>3, <2>4, PhaseKept
    <2>. QED BY Zenon, <2>2, <2>3, <2>5 DEF HInv, SharedTypes, LockHeld, StoresOK
  <1>6. CASE RegisterUser(u)
    <2>1. users' = users \cup {u} /\ store[u].member /\ hostLock = "free"
          /\ UNCHANGED <<running, current, admin, hostLock, notByAdmin, store>>
      BY Zenon, <1>6 DEF RegisterUser, WriteUsers, UserReady, UserMembership, AdminFree
    <2>2. Activations'
      BY Zenon, <2>1, PhaseKept DEF HInv, SharedTypes
    <2>. QED BY ZenonT(30), <2>1, <2>2 DEF HInv, SharedTypes, LockHeld, StoresOK
  <1>. QED BY Zenon, <1>2, <1>3, <1>4, <1>5, <1>6

-----------------------------------------------------------------------------
(* One step of an administrator command: its record moves to x.             *)
LEMMA AdminKeeps ==
    ASSUME HInv, NEW p \in Admin, NEW x \in AdminRecord, admin' = [admin EXCEPT ![p] = x],
           running' \in [HostUser -> Runtimes \cup {Down}],
           current' \in Runtimes \cup {NoRuntime},
           UNCHANGED <<users, store>>,
           \/ admin[p].pc # "idle" /\ x.pc # "idle" /\ hostLock' = hostLock
           \/ hostLock = "free" /\ x.pc # "idle" /\ hostLock' = p
           \/ x.pc = "idle" /\ hostLock' = "free",
           admin[p].pc # "idle" \/ hostLock = "free",
           Phase(x, current, running, notByAdmin)'
    PROVE  HInv'
  <1>1. admin'[p] = x /\ admin' \in [Admin -> AdminRecord] /\ \A q \in Admin \ {p} : admin'[q] = admin[q]
    BY Zenon DEF HInv, SharedTypes
  <1>2. \A q \in Admin \ {p} : admin[q].pc = "idle"
    BY Zenon, HostAssumption DEF HInv, LockHeld
  <1>3. LockHeld'
    BY ZenonT(30), <1>1, <1>2, HostAssumption DEF HInv, LockHeld
  <1>4. Activations'
    <2>1. \A q \in Admin \ {p} : Phase(admin[q], current, running, notByAdmin)'
      BY Zenon, <1>1, <1>2 DEF Phase
    <2>. QED BY SMTT(30), ZenonT(30), <1>1, <2>1 DEF Activations, Phase
  <1>5. StoresOK'
    BY Zenon DEF HInv, StoresOK
  <1>. QED BY ZenonT(30), <1>1, <1>3, <1>4, <1>5 DEF HInv, SharedTypes

LEMMA BeginKeeps ==
    ASSUME HInv, NEW p \in Admin, NEW g \in Runtimes, BeginActivation(p, g)
    PROVE  HInv'
  <1>1. admin[p] = NoAdmin /\ hostLock = "free"
        /\ UNCHANGED <<users, store, running, current, notByAdmin>>
    BY Zenon DEF BeginActivation, AdminFree
  <1>2. running' \in [HostUser -> Runtimes \cup {Down}] /\ current' \in Runtimes \cup {NoRuntime}
    BY Zenon, <1>1 DEF HInv, SharedTypes
  <1>3. CASE g = current
    <2>1. PICK x : x = [NoAdmin EXCEPT !.gen = g, !.outcome = "unchanged"]
      BY Zenon
    <2>2. x = [pc |-> "idle", gen |-> g, previous |-> NoRuntime, todo |-> {}, completed |-> {},
               failures |-> {}, outcome |-> "unchanged"]
      BY Zenon, <2>1 DEF NoAdmin
    <2>3. x \in AdminRecord /\ x.pc = "idle"
      BY Zenon, <2>2 DEF AdminRecord, AdminPcs, Outcomes
    <2>4. admin' = [admin EXCEPT ![p] = x] /\ hostLock' = hostLock
      BY Zenon, <1>3, <2>1 DEF BeginActivation
    <2>5. Phase(x, current, running, notByAdmin)'
      BY Zenon, <2>3 DEF Phase
    <2>. QED BY ZenonT(30), <1>1, <1>2, <2>3, <2>4, <2>5, AdminKeeps
  <1>4. CASE g # current
    <2>1. PICK x : x = [NoAdmin EXCEPT !.pc = "switch", !.gen = g, !.previous = current]
      BY Zenon
    <2>2. x = [pc |-> "switch", gen |-> g, previous |-> current, todo |-> {}, completed |-> {},
               failures |-> {}, outcome |-> "none"]
      BY Zenon, <2>1 DEF NoAdmin
    <2>3. x \in AdminRecord /\ x.pc = "switch" /\ x.gen = g /\ x.previous = current /\ x.failures = {}
          /\ x.completed = {}
      BY Zenon, <2>2 DEF AdminRecord, AdminPcs, Outcomes, HInv, SharedTypes
    <2>4. admin' = [admin EXCEPT ![p] = x] /\ hostLock' = p
      BY Zenon, <1>4, <2>1 DEF BeginActivation
    <2>5. Phase(x, current, running, notByAdmin)'
      BY Zenon, <1>1, <1>4, <2>3 DEF Phase
    <2>. QED BY ZenonT(30), <1>1, <1>2, <2>3, <2>4, <2>5, AdminKeeps
  <1>. QED BY Zenon, <1>3, <1>4

(* The command ends, with any outcome: the lock goes with it.               *)
LEMMA EndKeeps ==
    ASSUME HInv, NEW p \in Admin, admin[p].pc # "idle", NEW outcome \in Outcomes,
           EndActivation(p, outcome), UNCHANGED <<users, store, running, current, notByAdmin>>
    PROVE  HInv'
  <1>1. PICK y, x : y = [admin[p] EXCEPT !.pc = "idle"] /\ x = [y EXCEPT !.outcome = outcome]
    BY Zenon
  <1>2. admin' = [admin EXCEPT ![p] = x] /\ hostLock' = "free"
    BY Zenon, <1>1 DEF EndActivation, HInv, SharedTypes
  <1>3. admin[p] \in AdminRecord
    BY Zenon DEF HInv, SharedTypes
  <1>4. y \in AdminRecord /\ y.pc = "idle"
    BY Zenon, <1>1, <1>3 DEF AdminRecord, AdminPcs
  <1>5. x \in AdminRecord /\ x.pc = "idle"
    BY Zenon, <1>1, <1>4 DEF AdminRecord
  <1>6. Phase(x, current, running, notByAdmin)'
    BY Zenon, <1>5 DEF Phase
  <1>7. running' \in [HostUser -> Runtimes \cup {Down}] /\ current' \in Runtimes \cup {NoRuntime}
    BY Zenon DEF HInv, SharedTypes
  <1>. QED BY ZenonT(30), <1>2, <1>5, <1>6, <1>7, AdminKeeps

LEMMA SwitchKeeps == ASSUME HInv, NEW p \in Admin, SwitchCurrent(p) PROVE HInv'
  <1>1. /\ admin[p].pc = "switch" /\ admin[p] \in AdminRecord
        /\ Phase(admin[p], current, running, notByAdmin)
    BY Zenon DEF SwitchCurrent, HInv, SharedTypes, Activations
  <1>2. PICK y, x : y = [admin[p] EXCEPT !.pc = "restart"] /\ x = [y EXCEPT !.todo = users]
    BY Zenon
  <1>3. admin' = [admin EXCEPT ![p] = x] /\ hostLock' = hostLock /\ UNCHANGED <<users, store, running>>
    BY Zenon, <1>2 DEF SwitchCurrent, HInv, SharedTypes
  <1>4. y \in AdminRecord /\ y.pc = "restart" /\ y.gen = admin[p].gen /\ y.previous = admin[p].previous
        /\ y.completed = admin[p].completed
    BY Zenon, <1>1, <1>2 DEF AdminRecord, AdminPcs
  <1>5. x \in AdminRecord /\ x.pc = "restart" /\ x.gen = admin[p].gen /\ x.previous = admin[p].previous
        /\ x.completed = admin[p].completed /\ x.todo = users
    BY Zenon, <1>2, <1>4 DEF AdminRecord, HInv, SharedTypes
  <1>6. current' = admin[p].gen /\ notByAdmin' = {u \in HostUser : running[u] = admin[p].gen}
    BY Zenon DEF SwitchCurrent
  <1>7. admin[p].completed = {} /\ admin[p].gen \in Runtimes /\ admin[p].gen # admin[p].previous
    BY Zenon, <1>1 DEF Phase
  <1>8. Phase(x, current, running, notByAdmin)'
    BY Zenon, <1>3, <1>5, <1>6, <1>7 DEF Phase, OnCandidate
  <1>9. running' \in [HostUser -> Runtimes \cup {Down}] /\ current' \in Runtimes \cup {NoRuntime}
    BY Zenon, <1>3, <1>6, <1>7 DEF HInv, SharedTypes
  <1>. QED BY ZenonT(30), <1>1, <1>3, <1>5, <1>8, <1>9, AdminKeeps

(* What a running activation has and where its next user is.                *)
LEMMA Running ==
    ASSUME HInv, NEW p \in Admin, admin[p].pc # "idle"
    PROVE  /\ admin[p] \in AdminRecord /\ Phase(admin[p], current, running, notByAdmin)
           /\ admin[p].gen \in Runtimes /\ admin[p].gen # Down /\ admin[p].gen # NoRuntime
           /\ admin[p].todo # {} => FirstOf(admin[p].todo) \in admin[p].todo
                                   /\ FirstOf(admin[p].todo) \in HostUser
           /\ admin[p].todo \subseteq HostUser /\ admin[p].completed \subseteq HostUser
           /\ admin[p].failures \subseteq HostUser
  <1>1. admin[p] \in AdminRecord /\ Phase(admin[p], current, running, notByAdmin)
    BY Zenon DEF HInv, SharedTypes, Activations
  <1>2. admin[p].gen \in Runtimes
    BY Zenon, <1>1 DEF Phase
  <1>3. admin[p].todo \subseteq HostUser /\ admin[p].completed \subseteq HostUser
        /\ admin[p].failures \subseteq HostUser
    BY Zenon, <1>1 DEF AdminRecord
  <1>4. admin[p].todo # {} => FirstOf(admin[p].todo) \in admin[p].todo
    BY Zenon, <1>3, FirstIsIn
  <1>. QED BY Zenon, <1>1, <1>2, <1>3, <1>4, HostAssumption DEF Down, NoRuntime

LEMMA RestartKeeps == ASSUME HInv, NEW p \in Admin, RestartDaemon(p) PROVE HInv'
  <1>. DEFINE a == admin[p]
              f == FirstOf(admin[p].todo)
  <1>1. a.pc = "restart" /\ a.todo # {} /\ UNCHANGED <<users, store, current, hostLock>>
        /\ notByAdmin' = notByAdmin \ {f}
    BY Zenon DEF RestartDaemon
  <1>2. a \in AdminRecord /\ Phase(a, current, running, notByAdmin) /\ a.gen \in Runtimes
        /\ f \in HostUser /\ f \in a.todo /\ a.completed \subseteq HostUser /\ a.gen # NoRuntime
    BY Zenon, <1>1, Running
  <1>3. current = a.gen /\ Launched = a.gen
    BY Zenon, <1>1, <1>2 DEF Phase, Launched
  <1>4. running \in [HostUser -> Runtimes \cup {Down}] /\ current \in Runtimes \cup {NoRuntime}
    BY Zenon DEF HInv, SharedTypes
  <1>5. ASSUME NEW pc \in {"verify", "rollback"}, admin' = [admin EXCEPT ![p].pc = pc],
               running' \in {running, [running EXCEPT ![f] = Down], [running EXCEPT ![f] = Launched]},
               pc = "verify" => running' = [running EXCEPT ![f] = Launched]
        PROVE  HInv'
    <2>1. PICK x : x = [a EXCEPT !.pc = pc]
      BY Zenon
    <2>2. admin' = [admin EXCEPT ![p] = x]
      BY Zenon, <1>5, <2>1 DEF HInv, SharedTypes
    <2>3. x \in AdminRecord /\ x.pc = pc /\ x.gen = a.gen /\ x.previous = a.previous /\ x.todo = a.todo
          /\ x.completed = a.completed
      BY Zenon, <1>2, <1>5, <2>1 DEF AdminRecord, AdminPcs
    <2>4. PICK g : g = f
      BY Zenon
    <2>5. FirstOf(x.todo) = g
      BY Zenon, <2>3, <2>4
    <2>6. running' \in [HostUser -> Runtimes \cup {Down}] /\ \A u \in HostUser \ {f} : running'[u] = running[u]
      BY Zenon, <1>2, <1>3, <1>4, <1>5
    <2>7. pc = "verify" => running'[f] = a.gen
      BY Zenon, <1>2, <1>3, <1>4, <1>5
    <2>8. \A u \in a.completed : running'[u] \in {a.gen, Down}
      BY ZenonT(30), <1>1, <1>2, <1>3, <1>4, <1>5 DEF Phase
    <2>9. OnCandidate(a, running', notByAdmin') \subseteq OnCandidate(a, running, notByAdmin) \cup {f}
      BY Zenon, <1>1, <2>6 DEF OnCandidate
    <2>10. OnCandidate(x, running, notByAdmin)' = OnCandidate(a, running', notByAdmin')
      BY Zenon, <2>3 DEF OnCandidate
    <2>11. OnCandidate(a, running, notByAdmin) \cap users \subseteq a.completed
           /\ users \subseteq a.todo \cup a.completed /\ a.gen # a.previous
      BY Zenon, <1>1, <1>2 DEF Phase
    <2>12. Phase(x, current, running, notByAdmin)'
      <3>1. OnCandidate(x, running, notByAdmin)' \cap users \subseteq x.completed \cup {g}
        BY Zenon, <2>3, <2>4, <2>9, <2>10, <2>11
      <3>2. pc = "verify" => \A u \in x.completed \cup {g} : running'[u] \in {x.gen, Down}
        BY Zenon, <2>3, <2>4, <2>7, <2>8
      <3>. HIDE DEF a, f
      <3>. QED BY ZenonT(30), <1>1, <1>2, <1>3, <1>5, <2>3, <2>5, <2>11, <3>1, <3>2 DEF Phase
    <2>. QED BY ZenonT(30), <1>1, <1>4, <1>5, <2>2, <2>3, <2>6, <2>12, AdminKeeps
  <1>6. CASE running' = [running EXCEPT ![f] = Launched] /\ admin' = [admin EXCEPT ![p].pc = "verify"]
    BY Zenon, <1>5, <1>6
  <1>7. CASE /\ running' \in {running, [running EXCEPT ![f] = Down], [running EXCEPT ![f] = Launched]}
             /\ admin' = [admin EXCEPT ![p].pc = "rollback"]
    BY Zenon, <1>5, <1>7
  <1>. QED BY Zenon, <1>6, <1>7 DEF RestartDaemon

LEMMA VerifyKeeps == ASSUME HInv, NEW p \in Admin, VerifyDaemon(p) PROVE HInv'
  <1>. DEFINE a == admin[p]
              f == FirstOf(admin[p].todo)
  <1>1. a.pc = "verify" /\ UNCHANGED <<users, store, running, current, hostLock, notByAdmin>>
    BY Zenon DEF VerifyDaemon
  <1>2. a \in AdminRecord /\ Phase(a, current, running, notByAdmin) /\ f \in HostUser
    BY Zenon, <1>1, Running DEF Phase
  <1>3. running' \in [HostUser -> Runtimes \cup {Down}] /\ current' \in Runtimes \cup {NoRuntime}
    BY Zenon, <1>1 DEF HInv, SharedTypes
  <1>4. CASE admin' = [admin EXCEPT ![p].pc = "rollback"]
    <2>1. PICK x : x = [a EXCEPT !.pc = "rollback"]
      BY Zenon
    <2>2. admin' = [admin EXCEPT ![p] = x]
      BY Zenon, <1>4, <2>1 DEF HInv, SharedTypes
    <2>3. x \in AdminRecord /\ x.pc = "rollback" /\ x.gen = a.gen /\ x.previous = a.previous
          /\ x.todo = a.todo /\ x.completed = a.completed
      BY Zenon, <1>2, <2>1 DEF AdminRecord, AdminPcs
    <2>4. Phase(x, current, running, notByAdmin)'
      BY Zenon, <1>1, <1>2, <2>3 DEF Phase, OnCandidate
    <2>. QED BY Zenon, <1>1, <1>3, <2>2, <2>3, <2>4, AdminKeeps
  <1>5. CASE admin' = [admin EXCEPT ![p].pc = "restart", ![p].todo = @ \ {f}, ![p].completed = @ \cup {f}]
    <2>1. PICK w, y, x : /\ w = [a EXCEPT !.pc = "restart"]
                         /\ y = [w EXCEPT !.todo = a.todo \ {f}]
                         /\ x = [y EXCEPT !.completed = a.completed \cup {f}]
      BY Zenon
    <2>2. w \in AdminRecord /\ w.pc = "restart" /\ w.gen = a.gen /\ w.previous = a.previous
          /\ w.todo = a.todo /\ w.completed = a.completed
      BY Zenon, <1>2, <2>1 DEF AdminRecord, AdminPcs
    <2>3. y \in AdminRecord /\ y.pc = "restart" /\ y.gen = a.gen /\ y.previous = a.previous
          /\ y.todo = a.todo \ {f} /\ y.completed = a.completed
      BY Zenon, <2>1, <2>2 DEF AdminRecord
    <2>4. x \in AdminRecord /\ x.pc = "restart" /\ x.gen = a.gen /\ x.previous = a.previous
          /\ x.todo = a.todo \ {f} /\ x.completed = a.completed \cup {f}
      BY ZenonT(30), <1>2, <2>1, <2>3 DEF AdminRecord
    <2>5. admin' = [admin EXCEPT ![p] = x]
      BY Zenon, <1>5, <2>1 DEF HInv, SharedTypes
    <2>6. Phase(x, current, running, notByAdmin)'
      BY Zenon, <1>1, <1>2, <2>4 DEF Phase, OnCandidate
    <2>. QED BY ZenonT(30), <1>1, <1>3, <2>4, <2>5, <2>6, AdminKeeps
  <1>. QED BY Zenon, <1>4, <1>5 DEF VerifyDaemon

LEMMA RollBackKeeps == ASSUME HInv, NEW p \in Admin, RollBack(p) PROVE HInv'
  <1>. DEFINE a == admin[p]
              f == FirstOf(admin[p].todo)
  <1>1. a.pc = "rollback" /\ UNCHANGED <<users, store, running, hostLock, notByAdmin>>
        /\ current' = a.previous
    BY Zenon DEF RollBack
  <1>2. a \in AdminRecord /\ Phase(a, current, running, notByAdmin) /\ f \in HostUser
        /\ a.completed \subseteq HostUser
    BY Zenon, <1>1, Running DEF Phase
  <1>3. running' \in [HostUser -> Runtimes \cup {Down}] /\ current' \in Runtimes \cup {NoRuntime}
    BY Zenon, <1>1, <1>2 DEF HInv, SharedTypes, AdminRecord
  <1>4. PICK y, x : y = [a EXCEPT !.pc = "restore"] /\ x = [y EXCEPT !.todo = a.completed \cup {f}]
    BY Zenon
  <1>5. y \in AdminRecord /\ y.pc = "restore" /\ y.gen = a.gen /\ y.previous = a.previous
    BY Zenon, <1>2, <1>4 DEF AdminRecord, AdminPcs
  <1>6. x \in AdminRecord /\ x.pc = "restore" /\ x.gen = a.gen /\ x.previous = a.previous
        /\ x.todo = a.completed \cup {f}
    BY Zenon, <1>2, <1>4, <1>5 DEF AdminRecord
  <1>7. admin' = [admin EXCEPT ![p] = x]
    BY Zenon, <1>4 DEF RollBack, HInv, SharedTypes
  <1>8. Phase(x, current, running, notByAdmin)'
    BY Zenon, <1>1, <1>2, <1>6 DEF Phase, OnCandidate
  <1>. QED BY ZenonT(30), <1>1, <1>3, <1>6, <1>7, <1>8, AdminKeeps

LEMMA RestoreKeeps == ASSUME HInv, NEW p \in Admin, RestoreDaemon(p) PROVE HInv'
  <1>. DEFINE a == admin[p]
              f == FirstOf(admin[p].todo)
              next == [admin EXCEPT ![p].todo = a.todo \ {f}]
  <1>1. a.pc = "restore" /\ a.todo # {} /\ UNCHANGED <<users, store, current, hostLock>>
        /\ notByAdmin' = notByAdmin \ {f}
    BY Zenon DEF RestoreDaemon
  <1>2. a \in AdminRecord /\ Phase(a, current, running, notByAdmin) /\ f \in HostUser
        /\ a.gen \in Runtimes /\ a.gen # Down /\ a.failures \subseteq HostUser
    BY Zenon, <1>1, Running
  <1>3. running \in [HostUser -> Runtimes \cup {Down}] /\ current \in Runtimes \cup {NoRuntime}
        /\ admin \in [Admin -> AdminRecord]
    BY Zenon DEF HInv, SharedTypes
  <1>4. current = a.previous /\ Launched # a.gen /\ Launched \in Runtimes \cup {Down}
    BY Zenon, <1>1, <1>2, <1>3 DEF Phase, Launched
  <1>5. PICK y : y = [a EXCEPT !.todo = a.todo \ {f}]
    BY Zenon
  <1>6. y \in AdminRecord /\ y.pc = "restore" /\ y.gen = a.gen /\ y.previous = a.previous
        /\ y.todo = a.todo \ {f} /\ y.failures = a.failures
    BY Zenon, <1>1, <1>2, <1>5 DEF AdminRecord
  <1>7. next = [admin EXCEPT ![p] = y] /\ next[p] = y
    BY Zenon, <1>3, <1>5
  <1>8. OnCandidate(a, running, notByAdmin) \cap users \subseteq a.failures \cup a.todo
        /\ a.gen # a.previous
    BY Zenon, <1>1, <1>2 DEF Phase
  <1>9. ASSUME running' = [running EXCEPT ![f] = Launched], admin' = next PROVE HInv'
    <2>1. running' \in [HostUser -> Runtimes \cup {Down}]
      BY Zenon, <1>3, <1>4, <1>9
    <2>2. OnCandidate(y, running, notByAdmin)' \subseteq OnCandidate(a, running, notByAdmin) \ {f}
      BY ZenonT(30), <1>1, <1>2, <1>3, <1>4, <1>6, <1>9 DEF OnCandidate
    <2>3. Phase(y, current, running, notByAdmin)'
      BY ZenonT(30), <1>1, <1>2, <1>4, <1>6, <1>8, <2>2 DEF Phase
    <2>. QED BY ZenonT(30), <1>1, <1>3, <1>6, <1>7, <1>9, <2>1, <2>3, AdminKeeps
  <1>10. ASSUME running' \in {running, [running EXCEPT ![f] = Down]},
                admin' = [next EXCEPT ![p].failures = a.failures \cup {f}]
         PROVE  HInv'
    <2>1. PICK x : x = [y EXCEPT !.failures = a.failures \cup {f}]
      BY Zenon
    <2>2. x \in AdminRecord /\ x.pc = "restore" /\ x.gen = a.gen /\ x.previous = a.previous
          /\ x.todo = a.todo \ {f} /\ x.failures = a.failures \cup {f}
      BY Zenon, <1>2, <1>6, <2>1 DEF AdminRecord
    <2>3. admin' = [admin EXCEPT ![p] = x]
      BY Zenon, <1>3, <1>7, <1>10, <2>1
    <2>4. running' \in [HostUser -> Runtimes \cup {Down}]
      BY Zenon, <1>3, <1>10
    <2>5. OnCandidate(x, running, notByAdmin)' \subseteq OnCandidate(a, running, notByAdmin) \cup {f}
      BY Zenon, <1>1, <1>2, <1>3, <1>10, <2>2 DEF OnCandidate
    <2>6. Phase(x, current, running, notByAdmin)'
      BY ZenonT(30), <1>1, <1>2, <1>4, <1>8, <2>2, <2>5 DEF Phase
    <2>. QED BY ZenonT(30), <1>1, <1>3, <2>2, <2>3, <2>4, <2>6, AdminKeeps
  <1>11. next[p].failures = a.failures
    BY Zenon, <1>6, <1>7
  <1>. QED BY Zenon, <1>9, <1>10, <1>11 DEF RestoreDaemon

-----------------------------------------------------------------------------
LEMMA HostKept == ASSUME HInv, [HostNext]_sharedHostVars PROVE HInv'
  <1>1. ASSUME CreateHost \/ UNCHANGED sharedHostVars PROVE HInv'
    <2>1. UNCHANGED <<store, running, users, current, admin, hostLock, notByAdmin>>
      BY Zenon, <1>1 DEF CreateHost, sharedHostVars
    <2>. QED BY ZenonT(30), <2>1 DEF HInv, SharedTypes, LockHeld, StoresOK, Activations, Phase, OnCandidate
  <1>2. ASSUME NEW p \in Admin, FinishActivation(p) \/ FinishRollback(p) \/ KillActivation(p) PROVE HInv'
    <2>1. PICK outcome \in Outcomes : EndActivation(p, outcome)
      BY Zenon, <1>2 DEF FinishActivation, FinishRollback, KillActivation, Outcomes
    <2>2. admin[p].pc # "idle" /\ UNCHANGED <<users, store, running, current, notByAdmin>>
      BY Zenon, <1>2 DEF FinishActivation, FinishRollback, KillActivation
    <2>. QED BY Zenon, <2>1, <2>2, EndKeeps
  <1>. QED
    BY ZenonT(30), <1>1, <1>2, UserKeeps, BeginKeeps, SwitchKeeps, RestartKeeps, VerifyKeeps, RollBackKeeps,
       RestoreKeeps DEF HostNext

(* The phases, the lock and the stores stay consistent, whoever joins,      *)
(* writes, restarts or stops a daemon, is registered, activates a           *)
(* generation or is killed, and in whatever order.                          *)
(* (shared_runtime.py and host_context.py)                                  *)
THEOREM HostInvariance == HostSpec => []HInv
  BY HostInitOK, HostKept, PTL DEF HostSpec

(* The types of the shared host's state are kept, and the registry lock is  *)
(* held by exactly the command that is in the middle of an activation.      *)
(* (_locked_registry in shared_runtime.py)                                  *)
THEOREM HostTypeCorrect == HostSpec => []HostTypeOK
  <1>1. HInv => HostTypeOK
    BY Zenon DEF HInv, SharedTypes, LockHeld, HostTypeOK
  <1>. QED BY <1>1, HostInvariance, PTL

(* Only users who joined this host are registered.                          *)
(* (register_shared_user, "Register a user only after explicit join")       *)
THEOREM RegisteredJoined == HostSpec => []RegisteredHaveJoined
  <1>1. HInv => RegisteredHaveJoined
    BY Zenon DEF HInv, StoresOK, RegisteredHaveJoined
  <1>. QED BY <1>1, HostInvariance, PTL

(* A joined store has one principal and no account left in the standalone   *)
(* scope, whatever writes and second joins overlap with the join.           *)
(* (join_host_context, _ensure_local_projection_parents)                    *)
THEOREM JoinedScope == HostSpec => []JoinedStoreInScope
  <1>1. HInv => JoinedStoreInScope
    BY Zenon DEF HInv, StoresOK, JoinedStoreInScope
  <1>. QED BY <1>1, HostInvariance, PTL

-----------------------------------------------------------------------------
(* What an activation that ends with an outcome reports.                    *)
Changed(p) ==
    /\ current = admin[p].gen
    /\ \A u \in users : running[u] \in {admin[p].gen, Down}

Restored(p) ==
    /\ current = admin[p].previous
    /\ \A u \in users \ (admin[p].failures \cup notByAdmin) : running[u] # admin[p].gen

Reported(p) ==
    /\ admin'[p].outcome = "changed" /\ admin[p].outcome # "changed" => Changed(p)
    /\ admin'[p].outcome = "restored" /\ admin[p].outcome # "restored" => Restored(p)

(* Only the last step of an activation reports a change or a restoration.   *)
LEMMA OthersReportNothing ==
    ASSUME HInv, NEW p \in Admin,
           \/ \E g \in Runtimes : BeginActivation(p, g)
           \/ SwitchCurrent(p) \/ RestartDaemon(p) \/ VerifyDaemon(p)
           \/ RollBack(p) \/ RestoreDaemon(p) \/ KillActivation(p)
    PROVE  \A q \in Admin : Reported(q)
  <1>1. admin \in [Admin -> AdminRecord]
    BY Zenon DEF HInv, SharedTypes
  <1>2. ASSUME NEW q \in Admin, admin'[q].outcome \in {admin[q].outcome, "none", "unchanged", "killed"}
        PROVE  Reported(q)
    BY Zenon, <1>2 DEF Reported
  <1>. SUFFICES ASSUME NEW q \in Admin
                PROVE  admin'[q].outcome \in {admin[q].outcome, "none", "unchanged", "killed"}
    BY Zenon, <1>2
  <1>3. ASSUME NEW g \in Runtimes, BeginActivation(p, g) PROVE admin'[q].outcome \in {admin[q].outcome, "none", "unchanged", "killed"}
    <2>1. [NoAdmin EXCEPT !.gen = g, !.outcome = "unchanged"].outcome = "unchanged"
          /\ [NoAdmin EXCEPT !.pc = "switch", !.gen = g, !.previous = current].outcome = "none"
      BY Zenon DEF NoAdmin
    <2>. QED BY Zenon, <1>1, <1>3, <2>1 DEF BeginActivation
  <1>4. CASE SwitchCurrent(p)
    BY Zenon, <1>1, <1>4 DEF SwitchCurrent, AdminRecord
  <1>5. CASE RestartDaemon(p)
    BY <1>1, <1>5 DEF RestartDaemon, AdminRecord
  <1>6. CASE VerifyDaemon(p)
    BY <1>1, <1>6 DEF VerifyDaemon, AdminRecord
  <1>7. CASE RollBack(p)
    BY Zenon, <1>1, <1>7 DEF RollBack, AdminRecord
  <1>8. CASE RestoreDaemon(p)
    BY SMTT(30), <1>1, <1>8 DEF RestoreDaemon, AdminRecord
  <1>9. CASE KillActivation(p)
    BY SMTT(30), Zenon, <1>1, <1>9 DEF KillActivation, EndActivation, AdminRecord
  <1>. QED BY ZenonT(30), <1>3, <1>4, <1>5, <1>6, <1>7, <1>8, <1>9

LEMMA LastStepReports ==
    ASSUME HInv, NEW p \in Admin, FinishActivation(p) \/ FinishRollback(p)
    PROVE  \A q \in Admin : Reported(q)
  <1>1. admin \in [Admin -> AdminRecord] /\ Phase(admin[p], current, running, notByAdmin)
        /\ users \subseteq HostUser
    BY Zenon DEF HInv, SharedTypes, Activations
  <1>2. PICK outcome \in {"changed", "restored"} :
          /\ EndActivation(p, outcome)
          /\ outcome = "changed" => FinishActivation(p)
          /\ outcome = "restored" => FinishRollback(p)
    BY Zenon DEF FinishActivation, FinishRollback
  <1>3. admin'[p].outcome = outcome /\ \A q \in Admin \ {p} : admin'[q] = admin[q]
    BY Zenon, <1>1, <1>2 DEF EndActivation, AdminRecord
  <1>4. FinishActivation(p) => Changed(p)
    BY Zenon, <1>1 DEF FinishActivation, Phase, Changed
  <1>5. FinishRollback(p) => Restored(p)
    BY Zenon, <1>1 DEF FinishRollback, Phase, OnCandidate, Restored
  <1>. QED BY ZenonT(30), <1>2, <1>3, <1>4, <1>5 DEF Reported

(* An activation does what it reports: "changed" leaves every registered    *)
(* daemon on the new generation or stopped, and "previous code restored"    *)
(* leaves on the candidate only the failures it names and daemons it never  *)
(* reached.  (activate_shared_generation in shared_runtime.py)              *)
THEOREM ActivationDoesWhatItReports == HostSpec => ActivationAllOrNothing
  <1>1. ASSUME HInv, [HostNext]_sharedHostVars PROVE [\A p \in Admin : Reported(p)]_sharedHostVars
    <2>1. ASSUME admin' = admin PROVE \A p \in Admin : Reported(p)
      BY Zenon, <2>1 DEF Reported
    <2>2. ASSUME NEW u \in HostUser,
                 \/ JoinReads(u) \/ JoinTransaction(u) \/ (\E a \in Account : WriteAccount(u, a))
                 \/ InstallUserService(u) \/ UserActs(u) \/ RegisterUser(u)
          PROVE  \A p \in Admin : Reported(p)
      <3>1. admin' = admin
        BY Zenon, <2>2 DEF JoinReads, JoinTransaction, WriteAccount, InstallUserService, UserActs, RegisterUser
      <3>. QED BY Zenon, <2>1, <3>1
    <2>3. CreateHost => admin' = admin
      BY Zenon DEF CreateHost
    <2>. QED
      BY ZenonT(30), <1>1, <2>1, <2>2, <2>3, OthersReportNothing, LastStepReports DEF HostNext
  <1>2. (\A p \in Admin : Reported(p)) =>
        \A p \in Admin :
         /\ admin'[p].outcome = "changed" /\ admin[p].outcome # "changed" =>
              /\ current = admin[p].gen
              /\ \A u \in users : running[u] \in {admin[p].gen, Down}
         /\ admin'[p].outcome = "restored" /\ admin[p].outcome # "restored" =>
              /\ current = admin[p].previous
              /\ \A u \in users \ (admin[p].failures \cup notByAdmin) :
                     running[u] # admin[p].gen
    BY Zenon DEF Reported, Changed, Restored
  <1>. QED BY <1>1, <1>2, HostInvariance, PTL DEF HostSpec, ActivationAllOrNothing

=============================================================================
