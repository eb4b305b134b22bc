--------------------------- MODULE OperatorStore ---------------------------
(***************************************************************************)
(* The operator store ~/.config/seckit of one account: how "seckit init"   *)
(* and "seckit init sqlite" provision it, how every other command opens    *)
(* and validates it, and how the daemon creates its libp2p key.  The store *)
(* is several files written one after the other by processes that share no *)
(* lock: defaults.json, registry.json, sqlite-storage.key, the database    *)
(* and node-identity.key.  A step below ends wherever another process, or  *)
(* a kill, can see the files.                                              *)
(*                                                                         *)
(* A key, an identity or a database file is named after the process that   *)
(* created it ("old" for what the store held at first), so a file that is  *)
(* unlinked and created again is a different one, and a connection keeps   *)
(* the database file it opened.                                            *)
(***************************************************************************)
EXTENDS Naturals, FiniteSets

CONSTANTS
    OperatorInit,  \* processes running "seckit init"
    SqliteInit,    \* processes running "seckit init sqlite"
    Writer,        \* processes running a command that stores a secret
    TransportUser, \* daemon processes starting their libp2p transport
    Casts,         \* the sets of processes that run together
    ModeOf,        \* the storage mode each init asks for
    MaxKills       \* bound on the processes killed half way

(* One process runs one command; what it creates is named after it, and the *)
(* names of the files' other states are none of these names.                *)
ASSUME HomeAssumption ==
    /\ OperatorInit \cap SqliteInit = {}
    /\ (OperatorInit \cup SqliteInit) \cap (Writer \cup TransportUser) = {}
    /\ Writer \cap TransportUser = {}
    /\ {"old", "absent", "torn", "plain"} \cap
           (OperatorInit \cup SqliteInit \cup Writer \cup TransportUser) = {}
    /\ ModeOf \in [OperatorInit \cup SqliteInit -> {"encrypted", "plaintext"}]
    /\ MaxKills \in Nat

VARIABLES
    defaults,      \* "absent", "empty", or the mode defaults.json names
    registry,      \* registry.json exists
    storageKey,    \* the key in sqlite-storage.key
    identityKey,   \* the identity in node-identity.key
    database,      \* the file at the path of seckit.sqlite
    stores,        \* the contents of every database file
    transportKey,  \* the libp2p key file: "absent", "torn", or its key
    proc,          \* the processes
    lastInit,      \* how the init that ended last ended
    collided,      \* an init has begun while another was creating files
    kills

homeVars == <<defaults, registry, storageKey, identityKey, database, stores,
              transportKey, proc, lastInit, collided, kills>>
fileVars == <<defaults, registry, storageKey, identityKey, database, stores,
              transportKey>>

InitProcess == OperatorInit \cup SqliteInit
Process == InitProcess \cup Writer \cup TransportUser
Made == Process \cup {"old"}
Modes == {"encrypted", "plaintext"}

IdleProcess == [pc |-> "idle", replace |-> FALSE, existed |-> FALSE,
                conn |-> "absent", loaded |-> "absent"]
Ended == {"idle", "done", "failed", "killed", "serving"}
InProgress(p) == proc[p].pc \notin Ended

\* connect_sqlite: a file it creates has no tables and the umask's mode.
NewFile == [schema |-> FALSE, mode |-> "none", nodes |-> {},
            private |-> FALSE, rows |-> {}]
CompleteStore == [schema |-> TRUE, mode |-> "encrypted", nodes |-> {"old"},
                  private |-> TRUE, rows |-> {"old"}]

---------------------------------------------------------------------------
\* Opening: what validation asks of the files.

\* validate_sqlite_operator_store: the files exist with mode 0600.
OperatorStoreValid(conn) ==
    /\ defaults # "absent"
    /\ registry
    /\ database # "absent" /\ stores[database].private
    /\ identityKey # "absent"
    /\ stores[conn].mode = "encrypted" => storageKey # "absent"

\* validate_sqlite_storage_mode: the database decides, defaults must agree.
StorageModeValid(conn) ==
    /\ stores[conn].mode # "none"
    /\ defaults \in Modes => defaults = stores[conn].mode

\* validate_sqlite_node_identity: the single local node is the one whose
\* keys the identity file holds.
NodeIdentityValid(conn) ==
    identityKey # "absent" /\ stores[conn].nodes = {identityKey}

\* validate_sqlite_datastore on an open connection.
DatastoreValid(conn) ==
    /\ OperatorStoreValid(conn)
    /\ stores[conn].schema
    /\ StorageModeValid(conn)
    /\ NodeIdentityValid(conn)

\* open_sqlite_backend: a missing database is refused, never created.
StoreOpens == database # "absent" /\ DatastoreValid(database)

---------------------------------------------------------------------------
\* Steps of a process.

ProcessAt(p, step) == proc[p].pc = step
ProcessGoto(p, step) == proc' = [proc EXCEPT ![p].pc = step]
GotoWith(p, step, job) == proc' = [proc EXCEPT ![p] = [job EXCEPT !.pc = step]]
Connected(p, conn) == [proc[p] EXCEPT !.conn = conn]
Loaded(p, loaded) == [proc[p] EXCEPT !.loaded = loaded]
EndProcess(p, outcome) ==
    /\ proc' = [proc EXCEPT ![p] = [IdleProcess EXCEPT !.pc = outcome]]
    /\ lastInit' = IF p \in InitProcess THEN outcome ELSE lastInit
    /\ UNCHANGED <<collided, kills>>
Continues == UNCHANGED <<lastInit, collided, kills>>

\* Two inits at once over a store that does not open, or one of them init
\* sqlite, both create files.  Nothing in the code prevents it; the state
\* records it, and the properties it can break exclude it.
InitsCollide(p) ==
    \E q \in InitProcess :
        InProgress(q) /\ ~(StoreOpens /\ {p, q} \subseteq OperatorInit)

---------------------------------------------------------------------------
\* seckit init, seckit init sqlite.

\* _operator_init_storage_mode: an existing database must have the requested
\* mode; one without the metadata row is refused as well.
StorageModeRefused(p) ==
    database # "absent" /\ stores[database].mode # ModeOf[p]

\* cmd_init_operator reads the mode before it writes anything.
BeginOperatorInit(p) ==
    /\ ProcessAt(p, "idle")
    /\ IF StorageModeRefused(p)
       THEN EndProcess(p, "failed")
       ELSE /\ ProcessGoto(p, "defaults")
            /\ collided' = (collided \/ InitsCollide(p))
            /\ UNCHANGED <<lastInit, kills>>
    /\ UNCHANGED fileVars

\* cmd_init_sqlite unlinks the database it replaces.
BeginSqliteInit(p) ==
    /\ ProcessAt(p, "idle")
    /\ database' = "absent"
    /\ GotoWith(p, "registry", [proc[p] EXCEPT !.replace = (database # "absent")])
    /\ collided' = (collided \/ InitsCollide(p))
    /\ UNCHANGED <<lastInit, kills, defaults, registry, storageKey, identityKey, stores,
                   transportKey>>

\* save_defaults replaces defaults.json.
SaveDefaults(p) ==
    /\ ProcessAt(p, "defaults")
    /\ defaults' = ModeOf[p]
    /\ ProcessGoto(p, IF p \in SqliteInit THEN "key" ELSE "registry")
    /\ Continues
    /\ UNCHANGED <<registry, storageKey, identityKey, database, stores,
                   transportKey>>

\* ensure_registry_storage writes the seed catalog when there is none; init
\* sqlite creates an empty defaults.json in the same way just before.
EnsureRegistry(p) ==
    /\ ProcessAt(p, "registry")
    /\ registry' = TRUE
    /\ defaults' = IF defaults = "absent" THEN "empty" ELSE defaults
    /\ ProcessGoto(p, IF p \in SqliteInit THEN "defaults" ELSE "key")
    /\ Continues
    /\ UNCHANGED <<storageKey, identityKey, database, stores, transportKey>>

\* Mutant of EnsureStorageKey: every init generates a new storage key.
AlwaysGeneratesKey(p) ==
    /\ ProcessAt(p, "key")
    /\ ProcessGoto(p, IF ModeOf[p] = "encrypted" THEN "keygen" ELSE "connect")
    /\ Continues
    /\ UNCHANGED fileVars

\* ensure_sqlite_storage_key: an existing key is loaded, a missing one is
\* generated; a plaintext datastore has none.
EnsureStorageKey(p) ==
    /\ ProcessAt(p, "key")
    /\ ProcessGoto(p, IF ModeOf[p] = "encrypted" /\ storageKey = "absent"
               THEN "keygen" ELSE "connect")
    /\ Continues
    /\ UNCHANGED fileVars

\* _create_storage_key: written beside the path and renamed over it.
CreateStorageKey(p) ==
    /\ ProcessAt(p, "keygen")
    /\ storageKey' = p
    /\ ProcessGoto(p, "connect")
    /\ Continues
    /\ UNCHANGED <<defaults, registry, identityKey, database, stores,
                   transportKey>>

\* Mutant of ConnectDatastore: the path is taken without creating the file.
ConnectsWithoutCreating(p) ==
    /\ ProcessAt(p, "connect")
    /\ database' = IF database = "absent" THEN p ELSE database
    /\ GotoWith(p, "schema", [Connected(p, database') EXCEPT !.existed = (database # "absent")])
    /\ Continues
    /\ UNCHANGED <<defaults, registry, storageKey, identityKey, stores,
                   transportKey>>

\* provision_sqlite_datastore connects, which creates a missing file.
ConnectDatastore(p) ==
    /\ ProcessAt(p, "connect")
    /\ database' = IF database = "absent" THEN p ELSE database
    /\ stores' = IF database = "absent"
                 THEN [i \in DOMAIN stores \cup {p} |-> IF i = p THEN NewFile ELSE stores[i]]
                 ELSE stores
    /\ GotoWith(p, "schema", [Connected(p, database') EXCEPT !.existed = (database # "absent")])
    /\ Continues
    /\ UNCHANGED <<defaults, registry, storageKey, identityKey, transportKey>>

\* bootstrap_schema: CREATE ... IF NOT EXISTS, the user_version at the end.
BootstrapSchema(p) ==
    /\ ProcessAt(p, "schema")
    /\ stores' = [stores EXCEPT ![proc[p].conn].schema = TRUE]
    /\ ProcessGoto(p, "mode")
    /\ Continues
    /\ UNCHANGED <<defaults, registry, storageKey, identityKey, database,
                   transportKey>>

\* initialize_sqlite_storage_mode reads the metadata row; an existing one
\* must be the requested mode.
ReadStorageMode(p) ==
    /\ ProcessAt(p, "mode")
    /\ LET found == stores[proc[p].conn].mode IN
       \/ /\ found = "none" /\ ProcessGoto(p, "setmode") /\ Continues
       \/ /\ found = ModeOf[p] /\ ProcessGoto(p, "chmod") /\ Continues
       \/ /\ found \notin {"none", ModeOf[p]} /\ EndProcess(p, "failed")
    /\ UNCHANGED fileVars

\* ... and inserts it; the primary key refuses a second row.
SetStorageMode(p) ==
    /\ ProcessAt(p, "setmode")
    /\ LET i == proc[p].conn IN
       IF stores[i].mode = "none"
       THEN /\ stores' = [stores EXCEPT ![i].mode = ModeOf[p]]
            /\ ProcessGoto(p, "chmod") /\ Continues
       ELSE EndProcess(p, "failed") /\ UNCHANGED stores
    /\ UNCHANGED <<defaults, registry, storageKey, identityKey, database,
                   transportKey>>

\* path.chmod(0o600), only when this process found no file before it
\* connected, and on whatever file is at the path by now.
RestrictDatabase(p) ==
    /\ ProcessAt(p, "chmod")
    /\ IF ~proc[p].existed /\ database = "absent"
       THEN EndProcess(p, "failed") /\ UNCHANGED stores
       ELSE /\ stores' = IF proc[p].existed THEN stores
                         ELSE [stores EXCEPT ![database].private = TRUE]
            /\ ProcessGoto(p, "identity") /\ Continues
    /\ UNCHANGED <<defaults, registry, storageKey, identityKey, database,
                   transportKey>>

\* ensure_sqlite_node_identity with replace: the old identity is unlinked.
DropIdentity(p) ==
    /\ ProcessAt(p, "identity")
    /\ identityKey' = IF proc[p].replace THEN "absent" ELSE identityKey
    /\ ProcessGoto(p, "loadidentity")
    /\ Continues
    /\ UNCHANGED <<defaults, registry, storageKey, database, stores,
                   transportKey>>

\* An existing identity file is loaded, a missing one generated.
LoadIdentity(p) ==
    /\ ProcessAt(p, "loadidentity")
    /\ IF identityKey = "absent" THEN ProcessGoto(p, "generate")
       ELSE GotoWith(p, "forget", Loaded(p, identityKey))
    /\ Continues
    /\ UNCHANGED fileVars

\* _create_identity_file: written beside the path and renamed over it.
CreateIdentity(p) ==
    /\ ProcessAt(p, "generate")
    /\ identityKey' = p
    /\ GotoWith(p, "forget", Loaded(p, p))
    /\ Continues
    /\ UNCHANGED <<defaults, registry, storageKey, database, stores,
                   transportKey>>

\* save_local_node_projection deletes the other rows of node_private ...
ForgetOtherNodes(p) ==
    /\ ProcessAt(p, "forget")
    /\ stores' = [stores EXCEPT ![proc[p].conn].nodes = @ \cap {proc[p].loaded}]
    /\ ProcessGoto(p, "project")
    /\ Continues
    /\ UNCHANGED <<defaults, registry, storageKey, identityKey, database,
                   transportKey>>

\* ... and inserts its own: the connection is in autocommit mode, so the two
\* statements are two transactions.
ProjectNode(p) ==
    /\ ProcessAt(p, "project")
    /\ stores' = [stores EXCEPT ![proc[p].conn].nodes = @ \cup {proc[p].loaded}]
    /\ ProcessGoto(p, "checkidentity")
    /\ Continues
    /\ UNCHANGED <<defaults, registry, storageKey, identityKey, database,
                   transportKey>>

CheckIdentity(p) ==
    /\ ProcessAt(p, "checkidentity")
    /\ IF NodeIdentityValid(proc[p].conn)
       THEN ProcessGoto(p, "seed") /\ Continues
       ELSE EndProcess(p, "failed")
    /\ UNCHANGED fileVars

\* _seed_operator_store opens the store to project the vocabulary; only init
\* sqlite treats a refusal as fatal.
SeedStore(p) ==
    /\ ProcessAt(p, "seed")
    /\ IF StoreOpens \/ p \in OperatorInit
       THEN ProcessGoto(p, "validate") /\ Continues
       ELSE EndProcess(p, "failed")
    /\ UNCHANGED fileVars

\* _validate_sqlite_installation decides what the init reports.
ValidateInstallation(p) ==
    /\ ProcessAt(p, "validate")
    /\ EndProcess(p, IF StoreOpens THEN "done" ELSE "failed")
    /\ UNCHANGED fileVars

---------------------------------------------------------------------------
\* Every other command; the daemon's libp2p key.

OpenBackend(p) ==
    /\ ProcessAt(p, "idle")
    /\ IF StoreOpens THEN GotoWith(p, "seal", Connected(p, database)) /\ Continues
       ELSE EndProcess(p, "failed")
    /\ UNCHANGED fileVars

\* encrypt_payload with the key file as it is now, under the mode of the
\* open database; _load_or_create_storage_key.
SealPayload(p) ==
    /\ ProcessAt(p, "seal")
    /\ LET sealed == stores[proc[p].conn].mode = "encrypted" IN
       /\ storageKey' = IF sealed /\ storageKey = "absent" THEN p
                        ELSE storageKey
       /\ GotoWith(p, "insert", Loaded(p, IF sealed THEN storageKey' ELSE "plain"))
    /\ Continues
    /\ UNCHANGED <<defaults, registry, identityKey, database, stores,
                   transportKey>>

InsertRow(p) ==
    /\ ProcessAt(p, "insert")
    /\ stores' = [stores EXCEPT ![proc[p].conn].rows = @ \cup {proc[p].loaded}]
    /\ EndProcess(p, "done")
    /\ UNCHANGED <<defaults, registry, storageKey, identityKey, database,
                   transportKey>>

\* Mutant of OpenTransportKey: a missing key is only looked for, not created.
LooksForTransportKey(p) ==
    /\ ProcessAt(p, "idle")
    /\ IF transportKey = "absent"
       THEN ProcessGoto(p, "writekey") /\ Continues
       ELSE IF transportKey = "torn" THEN EndProcess(p, "failed")
       ELSE GotoWith(p, "serving", Loaded(p, transportKey)) /\ Continues
    /\ UNCHANGED fileVars

\* _load_or_create_libp2p_identity: O_CREAT | O_EXCL decides who generates;
\* an existing file must hold 32 bytes.
OpenTransportKey(p) ==
    /\ ProcessAt(p, "idle")
    /\ \/ /\ transportKey = "absent" /\ transportKey' = "torn"
          /\ ProcessGoto(p, "writekey") /\ Continues
       \/ /\ transportKey = "torn" /\ UNCHANGED transportKey
          /\ EndProcess(p, "failed")
       \/ /\ transportKey \in Made /\ UNCHANGED transportKey
          /\ GotoWith(p, "serving", Loaded(p, transportKey)) /\ Continues
    /\ UNCHANGED <<defaults, registry, storageKey, identityKey, database, stores>>

WriteTransportKey(p) ==
    /\ ProcessAt(p, "writekey")
    /\ transportKey' = p
    /\ GotoWith(p, "serving", Loaded(p, p))
    /\ Continues
    /\ UNCHANGED <<defaults, registry, storageKey, identityKey, database, stores>>

\* A kill between two steps leaves the files as they are.
KillProcess(p) ==
    /\ InProgress(p) /\ kills < MaxKills
    /\ kills' = kills + 1
    /\ proc' = [proc EXCEPT ![p] = [IdleProcess EXCEPT !.pc = "killed"]]
    /\ lastInit' = IF p \in InitProcess THEN "killed" ELSE lastInit
    /\ UNCHANGED collided
    /\ UNCHANGED fileVars

---------------------------------------------------------------------------
\* An empty home, or one with a store in use; a process outside the cast
\* has nothing to do.
HomeInit ==
    /\ \E established \in BOOLEAN :
          /\ defaults = (IF established THEN "encrypted" ELSE "absent")
          /\ registry = established
          /\ storageKey = (IF established THEN "old" ELSE "absent")
          /\ identityKey = (IF established THEN "old" ELSE "absent")
          /\ database = (IF established THEN "old" ELSE "absent")
          /\ transportKey = (IF established THEN "old" ELSE "absent")
          /\ stores = (IF established THEN [i \in {"old"} |-> CompleteStore]
                       ELSE [i \in {} |-> NewFile])
    /\ \E cast \in Casts :
          proc = [p \in Process |-> IF p \in cast THEN IdleProcess
                                   ELSE [IdleProcess EXCEPT !.pc = "done"]]
    /\ lastInit = "none"
    /\ collided = FALSE
    /\ kills = 0

HomeNext ==
    \/ \E p \in OperatorInit : BeginOperatorInit(p)
    \/ \E p \in SqliteInit : BeginSqliteInit(p)
    \/ \E p \in InitProcess :
          \/ SaveDefaults(p) \/ EnsureRegistry(p)
          \/ EnsureStorageKey(p) \/ CreateStorageKey(p)
          \/ ConnectDatastore(p) \/ BootstrapSchema(p)
          \/ ReadStorageMode(p) \/ SetStorageMode(p) \/ RestrictDatabase(p)
          \/ DropIdentity(p) \/ LoadIdentity(p) \/ CreateIdentity(p)
          \/ ForgetOtherNodes(p) \/ ProjectNode(p) \/ CheckIdentity(p)
          \/ SeedStore(p) \/ ValidateInstallation(p)
    \/ \E p \in Writer : OpenBackend(p) \/ SealPayload(p) \/ InsertRow(p)
    \/ \E p \in TransportUser : OpenTransportKey(p) \/ WriteTransportKey(p)
    \/ \E p \in Process : KillProcess(p)

HomeSpec == HomeInit /\ [][HomeNext]_homeVars

---------------------------------------------------------------------------
\* The store's variables keep their types: in particular the local node of a
\* database is never more than the identities this home has generated.
HomeTypeOK ==
    /\ defaults \in Modes \cup {"absent", "empty"}
    /\ registry \in BOOLEAN
    /\ {storageKey, identityKey, database} \subseteq Made \cup {"absent"}
    /\ transportKey \in Made \cup {"absent", "torn"}
    /\ DOMAIN stores \subseteq Made
    /\ \A i \in DOMAIN stores :
          /\ stores[i].mode \in Modes \cup {"none"}
          /\ stores[i].nodes \subseteq Made
          /\ stores[i].rows \subseteq Made \cup {"plain"}
    /\ database # "absent" => database \in DOMAIN stores
    /\ lastInit \in {"none", "done", "failed", "killed"}
    /\ collided \in BOOLEAN

\* Secrets survive whatever an init does: repeated, killed, failed or
\* overlapping over a store in use (not when two inits create the store at once,
\* since the later rename replaces the key the first one returned).  Every
\* secret in the database at its path can be decrypted with the storage key on
\* disk; a database with secrets keeps everything "seckit init" cannot rebuild,
\* so that a killed init is repaired by another; no database holds rows of the
\* other storage mode, which is set once and never converted; and when no init
\* is under way and the last one reported success, the store opens.
SecretsSurvive ==
    /\ ~collided /\ database # "absent" /\ stores[database].mode = "encrypted" =>
        stores[database].rows \subseteq {storageKey}
    /\ ~collided /\ database # "absent" /\ stores[database].rows # {} =>
        /\ stores[database].private /\ stores[database].schema
        /\ identityKey # "absent"
    /\ \A i \in DOMAIN stores : stores[i].rows # {} =>
        /\ stores[i].mode = "plaintext" => stores[i].rows = {"plain"}
        /\ stores[i].mode = "encrypted" => "plain" \notin stores[i].rows
        /\ stores[i].mode # "none"
    /\ (lastInit = "done" /\ \A p \in InitProcess : ~InProgress(p)) => StoreOpens

\* Daemons that got as far as serving all use the libp2p key on disk.
OneTransportIdentity ==
    \A p \in TransportUser :
        proc[p].pc = "serving" => proc[p].loaded = transportKey
=============================================================================
