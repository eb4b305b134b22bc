----------------------------- MODULE SecretStore -----------------------------
(***************************************************************************)
(* The secret store of several paired nodes: the SQLite secrets API, the   *)
(* transaction history behind it, the projection every read uses, and the  *)
(* durable mail a local write leaves for the peers.  On top of it run the  *)
(* operator commands that take several store operations: the Keychain      *)
(* migration, the dotenv import with its placeholder rewrite, and the copy *)
(* of a service.  Each of those operations opens its own connection, so    *)
(* other commands and deliveries fall between them.                        *)
(*                                                                         *)
(* How one envelope is delivered is the subject of OutboundDelivery and    *)
(* InboundEnvelopes; here mail is a queue per pair of nodes, delivered in  *)
(* order and possibly more than once.                                      *)
(***************************************************************************)
EXTENDS Naturals, Sequences, FiniteSets, SequencesExt

CONSTANTS
    StoreNode,      \* nodes that hold a datastore
    Here,           \* the node whose operator runs the long commands
    Secret,         \* secret identities (service, account, name)
    Legacy,         \* [subset of Secret -> Value]: the records of the Keychain
    Items,          \* the selected Keychain scope, in inventory order
    Environment,    \* [subset of Secret -> Value]: the dotenv file at the start
    Batches,        \* [subset of {"env", "file", "backup"} -> candidates]
    Value,          \* values operators write
    CopyPairs,      \* <<source, destination>> pairs a service copy may take
    EligibleFirst,  \* [StoreNode -> SUBSET StoreNode]: peers admitted at the start
    MaxWrites,      \* [StoreNode -> Nat]: bound on the writes a node originates
    MaxStoreCommands     \* bound on the long commands started

VARIABLES
    history,    \* [node -> sequence]: the transactions table in rowid order
    rows,       \* [node -> [Secret -> row]]: the secrets projection
    words,      \* [node -> set of names]: entry_types and entry_kinds
    mail,       \* [node -> [node -> sequence]]: pending envelopes
    eligible,   \* [node -> set of nodes]: peers eligible for synchronization
    dotenv,     \* [Secret -> content of its line]
    cmd,        \* the long command the operator of Here is running
    writes,     \* [node -> number of secret transactions it originated]
    commands    \* number of long commands started

storeVars == <<history, rows, words, mail, eligible, dotenv, cmd, writes, commands>>

NoValue == "no value"
Placeholder == "placeholder"
Empty == "empty"
Word == "word"                 \* the entry type and kind an operator's write names
LegacyWord == "legacy word"    \* those of the Keychain's metadata
AbsentRow == [state |-> "absent", value |-> NoValue, word |-> NoValue, created |-> 0]
NoCommand == [op |-> "none", pc |-> "idle", i |-> 0, seen |-> <<>>, empty |-> FALSE,
              value |-> NoValue, batch |-> <<>>, overwrite |-> FALSE, finish |-> FALSE]

-----------------------------------------------------------------------------
(* Transactions *)

\* One secret write emits its vocabulary (entry type and entry kind, here one
\* transaction) and then itself, all in one SQLite transaction.
CreateTransaction(n, kind, s, v, w, local) ==
    [kind |-> kind, origin |-> n, number |-> writes[n] + 1, secret |-> s, value |-> v,
     word |-> w, local |-> local]

IsSecret(tx) == tx.kind \in {"secret.set", "secret.delete"}

SecretHistory(n, s) == SelectSeq(history[n], LAMBDA tx : IsSecret(tx) /\ tx.secret = s)

\* The projection of one transaction: the last one applied wins, and the row
\* keeps the creation time of the transaction that inserted it.
ApplyTransaction(projection, tx) ==
    IF ~IsSecret(tx) THEN projection
    ELSE LET old == projection[tx.secret]
             made == IF old.state = "absent" THEN tx.number ELSE old.created
         IN  [projection EXCEPT ![tx.secret] =
                IF tx.kind = "secret.set"
                THEN [state |-> "active", value |-> tx.value, word |-> tx.word,
                      created |-> made]
                ELSE [state |-> "deleted", value |-> NoValue, word |-> tx.word,
                      created |-> made]]

\* Vocabulary upserts, and the fallback that inserts a name a secret row needs.
ProjectVocabulary(known, tx) == known \cup {tx.word}

\* INSERT OR IGNORE keyed by transaction and destination: a transaction whose
\* envelope exists, sent or not, is not queued again.
AlreadyQueued(n, m, tx) ==
    \/ \E j \in 1..Len(mail[n][m]) : mail[n][m][j] = tx
    \/ \E j \in 1..Len(history[m]) : history[m][j] = tx

PersistOutbound(n, txs) ==
    [m \in StoreNode |->
        IF m \in eligible[n]
        THEN mail[n][m] \o SelectSeq(txs, LAMBDA tx : ~AlreadyQueued(n, m, tx))
        ELSE mail[n][m]]

\* submit_transaction for each transaction of one operation, in order.
SubmitTransactions(n, txs, outbound) ==
    /\ history' = [history EXCEPT ![n] = @ \o txs]
    /\ rows' = [rows EXCEPT ![n] = FoldLeft(ApplyTransaction, @, txs)]
    /\ words' = [words EXCEPT ![n] = FoldLeft(ProjectVocabulary, @, txs)]
    /\ mail' = [mail EXCEPT ![n] = IF outbound THEN PersistOutbound(n, txs) ELSE @]

-----------------------------------------------------------------------------
(* The secrets API *)

SetTransactions(n, s, v, w, local) ==
    <<CreateTransaction(n, "vocabulary", s, NoValue, w, local),
      CreateTransaction(n, "secret.set", s, v, w, local)>>

MayWrite(n) == writes[n] < MaxWrites[n]

\* The reads: every one of them sees active rows only.
SecretExists(n, s) == rows[n][s].state = "active"
GetSecret(n, s) == rows[n][s].value
GetMetadata(n, s) == rows[n][s].word

\* set_sqlite_secret: a normal write, queued for the eligible peers.
SetSecret(n, s, v, w) ==
    /\ MayWrite(n)
    /\ writes' = [writes EXCEPT ![n] = @ + 1]
    /\ SubmitTransactions(n, SetTransactions(n, s, v, w, FALSE), TRUE)

RefusesExisting(n, s) == rows[n][s].state # "absent" \/ SecretHistory(n, s) # <<>>

\* import_sqlite_secret_for_sync: a write that refuses an identity with a row
\* or a history.
ImportForSync(n, s, v, w) ==
    /\ ~RefusesExisting(n, s)
    /\ SetSecret(n, s, v, w)

\* Mutant of ImportLocal: an identity that appeared since the preflight is
\* overwritten.
ImportsOverExisting(n, s, v, w) ==
    /\ MayWrite(n)
    /\ writes' = [writes EXCEPT ![n] = @ + 1]
    /\ SubmitTransactions(n, SetTransactions(n, s, v, w, TRUE), FALSE)

\* import_sqlite_secret_local: the same under the restore policy, no envelopes.
ImportLocal(n, s, v, w) ==
    /\ MayWrite(n)
    /\ ~RefusesExisting(n, s)
    /\ writes' = [writes EXCEPT ![n] = @ + 1]
    /\ SubmitTransactions(n, SetTransactions(n, s, v, w, TRUE), FALSE)

\* delete_sqlite_secret: the tombstone carries the metadata of the active row.
DeleteSecret(n, s) ==
    /\ MayWrite(n)
    /\ SecretExists(n, s)
    /\ writes' = [writes EXCEPT ![n] = @ + 1]
    /\ SubmitTransactions(n,
         <<CreateTransaction(n, "secret.delete", s, NoValue,
                             GetMetadata(n, s), FALSE)>>, TRUE)

Position(n, tx) == CHOOSE j \in 1..Len(history[n]) : history[n][j] = tx

\* The transactions just before the secret's own must be its vocabulary.
PrerequisitesMatch(n, tx) ==
    LET j == Position(n, tx) IN
        /\ j > 1
        /\ history[n][j - 1].kind = "vocabulary"
        /\ history[n][j - 1].word = tx.word

\* Mutant of SyncAuthorized: the first transaction of a changed secret will do.
AuthorizesChanged(n, s) ==
    LET found == SecretHistory(n, s) IN
        /\ rows[n][s].state = "active"
        /\ Len(found) >= 1
        /\ found[1].kind = "secret.set"
        /\ PrerequisitesMatch(n, found[1])

\* The active secret has one transaction in its whole history, its set.
SyncAuthorized(n, s) ==
    LET found == SecretHistory(n, s) IN
        /\ rows[n][s].state = "active"
        /\ Len(found) = 1
        /\ found[1].kind = "secret.set"
        /\ PrerequisitesMatch(n, found[1])

\* authorize_existing_sqlite_secret_for_sync: queue the retained transactions
\* of a transaction this node originated, and change nothing else.
AuthorizeExisting(n, s) ==
    LET j == Position(n, SecretHistory(n, s)[1]) IN
        /\ SyncAuthorized(n, s)
        /\ mail' = [mail EXCEPT ![n] =
             IF history[n][j].origin = n
             THEN PersistOutbound(n, SubSeq(history[n], j - 1, j)) ELSE @]
        /\ UNCHANGED <<history, rows, words, writes>>

-----------------------------------------------------------------------------
(* Short commands, delivery and admission *)

OperatorSets(n, s, v) ==
    /\ SetSecret(n, s, v, Word)
    /\ UNCHANGED <<eligible, dotenv, cmd, commands>>

OperatorImports(n, s, v) ==
    /\ ImportForSync(n, s, v, Word)
    /\ UNCHANGED <<eligible, dotenv, cmd, commands>>

OperatorDeletes(n, s) ==
    /\ DeleteSecret(n, s)
    /\ UNCHANGED <<eligible, dotenv, cmd, commands>>

\* The head of a queue reaches its destination.  The remote policy persists and
\* applies it once; a duplicate is acknowledged and changes nothing.  With
\* `acknowledged` false the answer is lost and the envelope stays queued.
Deliver(n, m, acknowledged) ==
    /\ mail[n][m] # <<>>
    /\ LET tx == Head(mail[n][m])
           txs == IF \E j \in 1..Len(history[m]) : history[m][j] = tx
                  THEN <<>> ELSE <<tx>>
       IN  /\ acknowledged \/ txs # <<>>
           /\ history' = [history EXCEPT ![m] = @ \o txs]
           /\ rows' = [rows EXCEPT ![m] = FoldLeft(ApplyTransaction, @, txs)]
           /\ words' = [words EXCEPT ![m] = FoldLeft(ProjectVocabulary, @, txs)]
    /\ mail' = [mail EXCEPT ![n][m] = IF acknowledged THEN Tail(@) ELSE @]
    /\ UNCHANGED <<eligible, dotenv, cmd, writes, commands>>

\* A peer becomes eligible; nothing written before is queued for it.
Admit(n, m) ==
    /\ n # m
    /\ m \notin eligible[n]
    /\ eligible' = [eligible EXCEPT ![n] = @ \cup {m}]
    /\ UNCHANGED <<history, rows, words, mail, dotenv, cmd, writes, commands>>

-----------------------------------------------------------------------------
(* seckit migrate keychain *)

CommandIdle(c) == c.pc = "idle"

StartCommand(c) ==
    /\ CommandIdle(cmd)
    /\ commands < MaxStoreCommands
    /\ commands' = commands + 1
    /\ cmd' = c
    /\ UNCHANGED <<history, rows, words, mail, eligible, dotenv, writes>>

Store == <<history, rows, words, mail, writes>>
StoreOutside == <<eligible, dotenv, commands>>

\* The command ends: done, stopped by an error, or killed.
Stops == cmd' = NoCommand

\* The inventory, and the storage mode of the target, are read first.
StartMigrate(authorize) ==
    /\ Items # <<>>
    /\ StartCommand([NoCommand EXCEPT !.op = "migrate", !.pc = "states", !.i = 1,
                                      !.finish = authorize])

\* The step after item i of a phase: the next item, or the next phase.
NextItem(c, phase) ==
    IF c.i < Len(Items) THEN [c EXCEPT !.i = @ + 1, !.pc = IF phase = "copy" THEN "copy" ELSE @]
    ELSE CASE phase = "states" -> [c EXCEPT !.pc = "compare", !.i = 1]
           [] phase = "compare" -> [c EXCEPT !.pc = "copy", !.i = 1]
           [] phase = "copy" -> IF c.finish THEN [c EXCEPT !.pc = "authorize", !.i = 1]
                                ELSE NoCommand
           [] phase = "authorize" -> NoCommand

StoreAt(op, pc) == cmd.op = op /\ cmd.pc = pc

\* target_state of one item.
TargetState ==
    /\ StoreAt("migrate", "states")
    /\ cmd' = NextItem([cmd EXCEPT !.seen = Append(@, rows[Here][Items[cmd.i]].state)],
                       "states")
    /\ UNCHANGED <<Store, StoreOutside>>

\* metadata_matches and equal values.
Matches(s) ==
    /\ SecretExists(Here, s)
    /\ GetSecret(Here, s) = Legacy[s]
    /\ GetMetadata(Here, s) = LegacyWord

\* Every existing target is compared before the first write.
CompareTarget ==
    /\ StoreAt("migrate", "compare")
    /\ IF \/ cmd.seen[cmd.i] = "absent"
          \/ cmd.seen[cmd.i] = "active" /\ Matches(Items[cmd.i])
       THEN cmd' = NextItem(cmd, "compare")
       ELSE Stops
    /\ UNCHANGED <<Store, StoreOutside>>

CopyItem ==
    /\ StoreAt("migrate", "copy")
    /\ LET s == Items[cmd.i] IN
         \/ /\ cmd.seen[cmd.i] = "active"
            /\ cmd' = NextItem(cmd, "copy")
            /\ UNCHANGED Store
         \/ /\ cmd.seen[cmd.i] # "active"
            /\ ImportLocal(Here, s, Legacy[s], LegacyWord)
            /\ cmd' = [cmd EXCEPT !.pc = "verify"]
    /\ UNCHANGED StoreOutside

VerifyItem ==
    /\ StoreAt("migrate", "verify")
    /\ IF Matches(Items[cmd.i]) THEN cmd' = NextItem(cmd, "copy") ELSE Stops
    /\ UNCHANGED <<Store, StoreOutside>>

AuthorizeItem ==
    /\ StoreAt("migrate", "authorize")
    /\ AuthorizeExisting(Here, Items[cmd.i])
    /\ cmd' = NextItem(cmd, "authorize")
    /\ UNCHANGED StoreOutside

\* A read of the Keychain, a store operation or a refused import raises, or the
\* process is killed.
CommandFails ==
    /\ ~CommandIdle(cmd)
    /\ Stops
    /\ UNCHANGED <<Store, StoreOutside>>

-----------------------------------------------------------------------------
(* seckit import env, import file, import encrypted, and migrate dotenv *)

\* The candidates a loader finds, in key order, with their values.
ImportCandidates(source) == IF source = "dotenv" THEN dotenv ELSE Batches[source]
Keys(batch) == SetToSeq(DOMAIN batch)

\* Only migrate dotenv rewrites its file, and only a backup may hold empty
\* secrets that count.
StartImport(source, overwrite, replace) ==
    /\ replace => source = "dotenv"
    /\ DOMAIN ImportCandidates(source) # {}
    /\ StartCommand([NoCommand EXCEPT !.op = "import", !.pc = "look", !.i = 1,
                                      !.overwrite = overwrite, !.finish = replace,
                                      !.batch = ImportCandidates(source),
                                      !.empty = source = "backup"])

NextKey(c) ==
    CASE c.i < Len(Keys(c.batch)) -> [c EXCEPT !.i = @ + 1, !.pc = "look"]
      [] c.i = Len(Keys(c.batch)) /\ c.finish ->
            [NoCommand EXCEPT !.op = "import", !.pc = "rewrite", !.overwrite = c.overwrite]
      [] OTHER -> NoCommand

Candidate == Keys(cmd.batch)[cmd.i]

\* The candidate is looked up.  An existing secret is skipped unless the command
\* may overwrite it, an empty value unless empty values are allowed.
LookUpCandidate ==
    /\ StoreAt("import", "look")
    /\ cmd' = CASE SecretExists(Here, Candidate) /\ ~cmd.overwrite -> NextKey(cmd)
                [] cmd.batch[Candidate] = Empty /\ ~cmd.empty -> NextKey(cmd)
                [] SecretExists(Here, Candidate) /\ cmd.overwrite ->
                      [cmd EXCEPT !.pc = "compare"]
                [] OTHER -> [cmd EXCEPT !.pc = "write"]
    /\ UNCHANGED <<Store, StoreOutside>>

\* An existing secret with the candidate's value is left as it is.
CompareCandidate ==
    /\ StoreAt("import", "compare")
    /\ cmd' = CASE ~SecretExists(Here, Candidate) -> NoCommand
                [] GetSecret(Here, Candidate) = cmd.batch[Candidate] -> NextKey(cmd)
                [] OTHER -> [cmd EXCEPT !.pc = "write"]
    /\ UNCHANGED <<Store, StoreOutside>>

WriteCandidate ==
    /\ StoreAt("import", "write")
    /\ SetSecret(Here, Candidate, cmd.batch[Candidate], Word)
    /\ cmd' = NextKey(cmd)
    /\ UNCHANGED StoreOutside

\* After an import that succeeded every key of the file becomes a placeholder.
RewriteDotenv ==
    /\ StoreAt("import", "rewrite")
    /\ dotenv' = [k \in DOMAIN dotenv |-> Placeholder]
    /\ cmd' = NoCommand
    /\ UNCHANGED <<Store, eligible, commands>>

-----------------------------------------------------------------------------
(* seckit service copy *)

StartCopy(pair, overwrite) ==
    StartCommand([NoCommand EXCEPT !.op = "copy", !.pc = "look", !.seen = pair,
                                   !.overwrite = overwrite])

LookUpCopy ==
    /\ StoreAt("copy", "look")
    /\ cmd' = IF SecretExists(Here, cmd.seen[2]) /\ ~cmd.overwrite
              THEN NoCommand ELSE [cmd EXCEPT !.pc = "read"]
    /\ UNCHANGED <<Store, StoreOutside>>

ReadCopySource ==
    /\ StoreAt("copy", "read")
    /\ cmd' = IF SecretExists(Here, cmd.seen[1])
              THEN [cmd EXCEPT !.pc = "write", !.value = GetSecret(Here, cmd.seen[1])]
              ELSE NoCommand
    /\ UNCHANGED <<Store, StoreOutside>>

WriteCopy ==
    /\ StoreAt("copy", "write")
    /\ SetSecret(Here, cmd.seen[2], cmd.value, Word)
    /\ cmd' = NoCommand
    /\ UNCHANGED StoreOutside

-----------------------------------------------------------------------------
(* Specification *)

StoreInit ==
    /\ history = [n \in StoreNode |-> <<>>]
    /\ rows = [n \in StoreNode |-> [s \in Secret |-> AbsentRow]]
    /\ words = [n \in StoreNode |-> {}]
    /\ mail = [n \in StoreNode |-> [m \in StoreNode |-> <<>>]]
    /\ eligible = EligibleFirst
    /\ dotenv = Environment
    /\ cmd = NoCommand
    /\ writes = [n \in StoreNode |-> 0]
    /\ commands = 0

MigrateStep ==
    \/ TargetState
    \/ CompareTarget
    \/ CopyItem
    \/ VerifyItem
    \/ AuthorizeItem

ImportStep ==
    \/ LookUpCandidate
    \/ CompareCandidate
    \/ WriteCandidate
    \/ RewriteDotenv

CopyStep ==
    \/ LookUpCopy
    \/ ReadCopySource
    \/ WriteCopy

StoreNext ==
    \/ \E n \in StoreNode, s \in Secret : \E v \in Value :
         OperatorSets(n, s, v) \/ OperatorImports(n, s, v)
    \/ \E n \in StoreNode, s \in Secret : OperatorDeletes(n, s)
    \/ \E n, m \in StoreNode : \E acknowledged \in BOOLEAN : Deliver(n, m, acknowledged)
    \/ \E n, m \in StoreNode : Admit(n, m)
    \/ \E authorize \in BOOLEAN : StartMigrate(authorize)
    \/ \E source \in {"dotenv"} \cup DOMAIN Batches : \E overwrite, replace \in BOOLEAN :
         StartImport(source, overwrite, replace)
    \/ \E pair \in CopyPairs, overwrite \in BOOLEAN : StartCopy(pair, overwrite)
    \/ MigrateStep
    \/ ImportStep
    \/ CopyStep
    \/ CommandFails

StoreSpec == StoreInit /\ [][StoreNext]_storeVars

-----------------------------------------------------------------------------
(* Properties *)

Row == [state : {"absent", "active", "deleted"},
        value : Value \cup {NoValue, Placeholder, Empty} \cup Range(Legacy)
                \cup Range(Environment) \cup UNION {Range(Batches[b]) : b \in DOMAIN Batches},
        word : {NoValue, Word, LegacyWord}, created : Nat]

\* Shape of the state: a row is a projection of some transaction of the node's
\* history, a tombstone has no value, and every name a row uses is projected.
StoreTypeOK ==
    /\ rows \in [StoreNode -> [Secret -> Row]]
    /\ \A n \in StoreNode, s \in Secret :
         /\ rows[n][s].state = "absent" <=> SecretHistory(n, s) = <<>>
         /\ rows[n][s].state # "active" => rows[n][s].value = NoValue
         /\ rows[n][s].state # "absent" => rows[n][s].word \in words[n]
    /\ \A n \in StoreNode : writes[n] \in 0..MaxWrites[n]
    /\ commands \in 0..MaxStoreCommands

Recorded(n, s) == {SecretHistory(n, s)[j] : j \in 1..Len(SecretHistory(n, s))}

\* Two nodes that recorded the same transactions of a secret that only one node
\* writes have the same row of it, whatever was imported locally, authorized
\* later, delivered twice or sent to a peer admitted in between: the order of
\* application is the order of the origin's history (apply_secret_set_projection).
OneWriterConverges ==
    \A n \in StoreNode : \A m \in StoreNode \ {n}, s \in Secret :
        /\ Recorded(n, s) = Recorded(m, s)
        /\ \A tx1, tx2 \in Recorded(n, s) : tx1.origin = tx2.origin
        => rows[n][s] = rows[m][s]

\* A migration loses nothing.  "Existing SQLite data are preserved": none of its
\* steps changes a secret that has a row, even one that appeared after the
\* preflight.  The rewrite of the dotenv file after an import loses no value
\* either: one replaced by a placeholder is in the node's history, unless the
\* import left an existing secret alone.
MigrationLosesNothing ==
    [][/\ cmd.op = "migrate" /\ cmd' # cmd =>
            \A s \in Secret : rows[Here][s].state # "absent" => rows'[Here][s] = rows[Here][s]
       /\ \A k \in DOMAIN dotenv :
            dotenv'[k] # dotenv[k] /\ dotenv[k] # Empty =>
               \E tx \in Recorded(Here, k) :
                   tx.kind = "secret.set" /\ (cmd.overwrite => tx.value = dotenv[k])
      ]_storeVars

=============================================================================
