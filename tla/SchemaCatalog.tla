---------------------------- MODULE SchemaCatalog ----------------------------
(***************************************************************************)
(* The schema catalog registry.json and the commands that change it:       *)
(* operator initialization (which cleans a legacy inventory out of the     *)
(* file), `schema install`, `schema field remove`, `schema deprecate`,     *)
(* `schema remove`, and `set`, which validates a secret's custom fields    *)
(* against the catalog.                                                    *)
(*                                                                         *)
(* The file is replaced atomically but never locked: every command reads   *)
(* a whole document, works on its copy and writes the copy back, and the   *)
(* secrets live in another store.  Commands therefore interleave at every  *)
(* read and write below.  A descriptor keeps its version and its field     *)
(* specifications; entry types, kinds and categories are left out.         *)
(***************************************************************************)
EXTENDS Naturals, FiniteSets

CONSTANTS
    Schema,         \* schema ids
    Field,          \* custom field names
    Entry,          \* secrets of the operator's store
    Shell,          \* shells an operator runs commands in
    Bundled,        \* [Schema -> Descriptor]: the seeds shipped with the package
    SeedFiles,      \* set of seed documents `schema install` may be given
    FirstFiles,     \* kinds of registry.json at the start
    MaxCatalogCommands

VARIABLES
    file,       \* registry.json: [kind, doc]
    backup,     \* what registry.json.pre-catalog-cleanup.bak holds
    entries,    \* [Entry -> metadata of the secret]
    shell,      \* [Shell -> the command it runs]
    catalogRuns \* number of commands started

catalogVars == <<file, backup, entries, shell, catalogRuns>>

NoSpec == "no spec"
Specs == {"optional", "required", "default"}
Kinds == {"missing", "inventory", "catalog"}

\* A schema id that is not in a document has version 0: parse_descriptor
\* accepts positive versions only.
Descriptor == [version : Nat, fields : [Field -> Specs \cup {NoSpec}]]
NoDescriptor == [version |-> 0, fields |-> [f \in Field |-> NoSpec]]
Document == [schemas : [Schema -> Descriptor], deprecated : SUBSET Schema]
EmptyDocument == [schemas |-> [s \in Schema |-> NoDescriptor], deprecated |-> {}]
Has(doc, s) == doc.schemas[s].version > 0

\* parse_descriptor: what is absent has no fields.
Seeds == {d \in Descriptor : d.version = 0 => d = NoDescriptor}

ASSUME CatalogAssumption ==
    /\ Bundled \in [Schema -> Seeds] /\ SeedFiles \subseteq [Schema -> Seeds]
    /\ FirstFiles \subseteq Kinds /\ MaxCatalogCommands \in Nat

\* custom[f] of a secret: "none" is an absent key, "undefined" the retired
\* sentinel, "set" any other value.
NoEntry == [schema |-> "none", custom |-> [f \in Field |-> "none"]]
Entries == [schema : Schema \cup {"none"}, custom : [Field -> {"none", "set", "undefined"}]]

AtRest == [op |-> "none", pc |-> "idle", doc |-> EmptyDocument, schema |-> "none",
           field |-> "none", entry |-> "none", meta |-> NoEntry, force |-> FALSE,
           yes |-> FALSE, seed |-> Bundled, refs |-> {}, late |-> {}]

-----------------------------------------------------------------------------
(* Documents *)

bump_schema_version(d) == [d EXCEPT !.version = @ + 1]

\* One seed descriptor merged into the one the registry has.
MergeFields(old, new, replace) ==
    LET fields == [f \in Field |->
            IF old.fields[f] = NoSpec \/ (replace /\ new.fields[f] # NoSpec)
            THEN new.fields[f] ELSE old.fields[f]]
    IN  IF fields = old.fields THEN old
        ELSE bump_schema_version([old EXCEPT !.fields = fields])

Collides(doc, seed) ==
    \E s \in Schema, f \in Field :
        /\ Has(doc, s)
        /\ doc.schemas[s].fields[f] # NoSpec /\ seed[s].fields[f] # NoSpec
        /\ doc.schemas[s].fields[f] # seed[s].fields[f]

merge_seed_into_registry(doc, seed, replace) ==
    [doc EXCEPT !.schemas = [s \in Schema |->
        IF Has(doc, s) THEN MergeFields(doc.schemas[s], seed[s], replace) ELSE seed[s]]]

WithSchema(doc, s, d) == [doc EXCEPT !.schemas = [@ EXCEPT ![s] = d]]

remove_field_from_descriptor(doc, s, f) ==
    WithSchema(doc, s, bump_schema_version([doc.schemas[s] EXCEPT !.fields = [@ EXCEPT ![f] = NoSpec]]))

SeedCatalog == merge_seed_into_registry(EmptyDocument, Bundled, FALSE)

\* ensure_schema_allowed
Allowed(doc, s) == s \notin doc.deprecated /\ Has(doc, s)

-----------------------------------------------------------------------------
(* The file *)

\* read_catalog refuses a missing file and a legacy inventory, and its caller
\* a catalog without schemas.
LoadsCatalog(f) == f.kind = "catalog" /\ \E s \in Schema : Has(f.doc, s)

WriteCatalog(doc) == file' = [kind |-> "catalog", doc |-> doc]

\* A command that has begun, and one that has loaded the catalog for a schema.
Begun(op, pc) == [[AtRest EXCEPT !.op = op] EXCEPT !.pc = pc]
LoadedFor(op, pc, s) == [[Begun(op, pc) EXCEPT !.doc = file.doc] EXCEPT !.schema = s]

Becomes(p, rec) == shell' = [shell EXCEPT ![p] = rec]
ShellAt(p, pc) == shell[p].pc = pc
Starts(p) ==
    /\ ShellAt(p, "idle")
    /\ catalogRuns < MaxCatalogCommands
    /\ catalogRuns' = catalogRuns + 1

\* Every secret write is noticed by the commands that have scanned already
\* (bookkeeping of the model: `late` is no part of the program).
WriteEntry(p, x, meta, rec) ==
    /\ entries' = [entries EXCEPT ![x] = meta]
    /\ shell' = [q \in Shell |->
          IF q = p THEN rec
          ELSE IF shell[q].pc \in {"retiring", "rewriting", "removing", "dropping"}
               THEN [shell[q] EXCEPT !.late = @ \cup {x}] ELSE shell[q]]

-----------------------------------------------------------------------------
(* init operator *)

\* _existing_init_targets loads the catalog, repairs included, before the
\* operator is asked anything.
InitLooks(p) ==
    /\ Starts(p)
    /\ Becomes(p, Begun("init", IF file.kind = "inventory" THEN "backing" ELSE "creating"))
    /\ UNCHANGED <<file, backup, entries>>

ChecksBackup(p) ==
    /\ ShellAt(p, "backing")
    /\ Becomes(p, [shell[p] EXCEPT !.pc = IF backup = "absent" THEN "copying" ELSE "cleaning"])
    /\ UNCHANGED <<file, backup, entries, catalogRuns>>

CopiesInventory(p) ==
    /\ ShellAt(p, "copying")
    /\ backup' = file.kind
    /\ Becomes(p, [shell[p] EXCEPT !.pc = "cleaning"])
    /\ UNCHANGED <<file, entries, catalogRuns>>

CleansInventory(p) ==
    /\ ShellAt(p, "cleaning")
    /\ WriteCatalog(SeedCatalog)
    /\ Becomes(p, [shell[p] EXCEPT !.pc = "creating"])
    /\ UNCHANGED <<backup, entries, catalogRuns>>

\* The confirmation, and ensure_registry_storage after it.
CreatesStorage(p) ==
    /\ ShellAt(p, "creating")
    /\ \/ /\ IF file.kind = "missing" THEN WriteCatalog(SeedCatalog) ELSE UNCHANGED file
          /\ Becomes(p, [shell[p] EXCEPT !.pc = "seeding"])
       \/ UNCHANGED file /\ Becomes(p, AtRest)
    /\ UNCHANGED <<backup, entries, catalogRuns>>

-----------------------------------------------------------------------------
(* schema install *)

\* merge_seed_files_into_store; `init operator` ends with it too.
ReadsForMerge(p, rec) ==
    Becomes(p, IF LoadsCatalog(file) THEN [[rec EXCEPT !.pc = "merging"] EXCEPT !.doc = file.doc]
                              ELSE [rec EXCEPT !.pc = "bootstrapping"])

InitSeeds(p) ==
    /\ ShellAt(p, "seeding")
    /\ ReadsForMerge(p, shell[p])
    /\ UNCHANGED <<file, backup, entries, catalogRuns>>

InstallStarts(p) ==
    /\ Starts(p)
    /\ \E seed \in SeedFiles, replace \in BOOLEAN :
          ReadsForMerge(p, [[Begun("install", "idle") EXCEPT !.seed = seed] EXCEPT !.force = replace])
    /\ UNCHANGED <<file, backup, entries>>

Bootstraps(p) ==
    /\ ShellAt(p, "bootstrapping")
    /\ WriteCatalog(SeedCatalog)
    /\ Becomes(p, [[shell[p] EXCEPT !.pc = "merging"] EXCEPT !.doc = SeedCatalog])
    /\ UNCHANGED <<backup, entries, catalogRuns>>

MergeSaves(p) ==
    /\ ShellAt(p, "merging")
    /\ IF Collides(shell[p].doc, shell[p].seed) /\ ~shell[p].force THEN UNCHANGED file
       ELSE WriteCatalog(merge_seed_into_registry(shell[p].doc, shell[p].seed, shell[p].force))
    /\ Becomes(p, AtRest)
    /\ UNCHANGED <<backup, entries, catalogRuns>>

-----------------------------------------------------------------------------
(* schema field remove *)

FieldRemoveLoads(p) ==
    /\ Starts(p)
    /\ \E s \in Schema, f \in Field, force \in BOOLEAN, yes \in BOOLEAN :
          /\ LoadsCatalog(file) /\ Allowed(file.doc, s)
          /\ Becomes(p, [[[LoadedFor("field remove", "scanning", s)
                EXCEPT !.field = f] EXCEPT !.force = force] EXCEPT !.yes = yes])
    /\ UNCHANGED <<file, backup, entries>>

find_field_references(s, f) ==
    {x \in Entry : entries[x].schema = s /\ entries[x].custom[f] = "set"}

\* The references are retired under the confirmation prompt, so `--force --yes`
\* goes straight to the removal.
FieldRemoveScans(p) ==
    /\ ShellAt(p, "scanning")
    /\ LET refs == find_field_references(shell[p].schema, shell[p].field)
           rec == [shell[p] EXCEPT !.refs = refs]
       IN  \/ refs # {} /\ ~shell[p].force /\ Becomes(p, AtRest)
           \/ /\ refs # {} /\ shell[p].force /\ ~shell[p].yes
              /\ Becomes(p, AtRest) \/ Becomes(p, [rec EXCEPT !.pc = "retiring"])
           \/ /\ refs = {} \/ (shell[p].force /\ shell[p].yes)
              /\ Becomes(p, [rec EXCEPT !.pc = "removing"])
    /\ UNCHANGED <<file, backup, entries, catalogRuns>>

RetireReads(p) ==
    /\ ShellAt(p, "retiring")
    /\ \E x \in shell[p].refs :
          Becomes(p, [[[shell[p] EXCEPT !.pc = "rewriting"] EXCEPT !.entry = x]
                      EXCEPT !.meta = entries[x]])
    /\ UNCHANGED <<file, backup, entries, catalogRuns>>

RetireWrites(p) ==
    /\ ShellAt(p, "rewriting")
    /\ LET x == shell[p].entry
           refs == shell[p].refs \ {x}
       IN  WriteEntry(p, x, [shell[p].meta EXCEPT !.custom = [@ EXCEPT ![shell[p].field] = "undefined"]],
              [[shell[p] EXCEPT !.refs = refs]
                         EXCEPT !.pc = IF refs = {} THEN "removing" ELSE "retiring"])
    /\ UNCHANGED <<file, backup, catalogRuns>>

FieldRemoveSaves(p) ==
    /\ ShellAt(p, "removing")
    /\ LET c == shell[p] IN
       IF c.doc.schemas[c.schema].fields[c.field] = NoSpec THEN UNCHANGED file
       ELSE WriteCatalog(remove_field_from_descriptor(c.doc, c.schema, c.field))
    /\ Becomes(p, AtRest)
    /\ UNCHANGED <<backup, entries, catalogRuns>>

-----------------------------------------------------------------------------
(* schema deprecate, schema remove *)

DeprecateLoads(p) ==
    /\ Starts(p)
    /\ \E s \in Schema :
          /\ LoadsCatalog(file) /\ Has(file.doc, s)
          /\ Becomes(p, LoadedFor("deprecate", "deprecating", s))
    /\ UNCHANGED <<file, backup, entries>>

DeprecateSaves(p) ==
    /\ ShellAt(p, "deprecating")
    /\ LET c == shell[p] IN
       WriteCatalog([WithSchema(c.doc, c.schema, bump_schema_version(c.doc.schemas[c.schema]))
                     EXCEPT !.deprecated = @ \cup {c.schema}])
    /\ Becomes(p, AtRest)
    /\ UNCHANGED <<backup, entries, catalogRuns>>

SchemaRemoveLoads(p) ==
    /\ Starts(p)
    /\ \E s \in Schema, force \in BOOLEAN :
          /\ LoadsCatalog(file)
          /\ Becomes(p, [LoadedFor("remove", "finding", s) EXCEPT !.force = force])
    /\ UNCHANGED <<file, backup, entries>>

\* Mutant of find_schema_id_references: entries without custom fields are not counted.
OnlyWithFields(s) == {x \in Entry : entries[x].schema = s /\ \E f \in Field : entries[x].custom[f] = "set"}

find_schema_id_references(s) == {x \in Entry : entries[x].schema = s}

SchemaRemoveScans(p) ==
    /\ ShellAt(p, "finding")
    /\ LET users == find_schema_id_references(shell[p].schema)
       IN  \/ users # {} /\ Becomes(p, AtRest)      \* refused, or not confirmed
           \/ /\ users = {} \/ shell[p].force
              /\ Becomes(p, [[shell[p] EXCEPT !.pc = "dropping"] EXCEPT !.refs = users])
    /\ UNCHANGED <<file, backup, entries, catalogRuns>>

SchemaRemoveSaves(p) ==
    /\ ShellAt(p, "dropping")
    /\ WriteCatalog([WithSchema(shell[p].doc, shell[p].schema, NoDescriptor)
                     EXCEPT !.deprecated = @ \ {shell[p].schema}])
    /\ Becomes(p, AtRest)
    /\ UNCHANGED <<backup, entries, catalogRuns>>

-----------------------------------------------------------------------------
(* set *)

\* build_metadata reads the existing entry first.
SetReads(p) ==
    /\ Starts(p)
    /\ \E x \in Entry :
          Becomes(p, [[Begun("set", "resolving") EXCEPT !.entry = x] EXCEPT !.meta = entries[x]])
    /\ UNCHANGED <<file, backup, entries>>

\* merge_entry_metadata lays the given fields over the stored ones;
\* validate_custom refuses a set field the descriptor does not have, fills in
\* defaults and wants the required fields.
Merged(meta, s, given) ==
    [schema |-> s, custom |-> [f \in Field |-> IF f \in given THEN "set" ELSE meta.custom[f]]]

Valid(meta, d) ==
    \A f \in Field : /\ meta.custom[f] = "set" => d.fields[f] # NoSpec
                     /\ d.fields[f] = "required" => meta.custom[f] = "set"

Defaulted(meta, d) ==
    [meta EXCEPT !.custom = [f \in Field |->
        IF d.fields[f] = "default" THEN "set" ELSE meta.custom[f]]]

\* resolve_schema_id: the one asked for, else the stored one, else some schema
\* of the registry.
SetResolves(p) ==
    /\ ShellAt(p, "resolving")
    /\ \/ \E s \in Schema, given \in SUBSET Field :
             LET d == file.doc.schemas[s]
                 meta == Merged(shell[p].meta, s, given)
             IN  /\ LoadsCatalog(file) /\ Allowed(file.doc, s) /\ Valid(meta, d)
                 /\ Becomes(p, [[shell[p] EXCEPT !.pc = "setting"] EXCEPT !.meta = Defaulted(meta, d)])
       \/ Becomes(p, AtRest)                        \* refused
    /\ UNCHANGED <<file, backup, entries, catalogRuns>>

SetWrites(p) ==
    /\ ShellAt(p, "setting")
    /\ WriteEntry(p, shell[p].entry, shell[p].meta, AtRest)
    /\ UNCHANGED <<file, backup, catalogRuns>>

-----------------------------------------------------------------------------
CatalogInit ==
    /\ file \in [kind : FirstFiles, doc : {EmptyDocument}]
    /\ backup = "absent"
    /\ entries = [x \in Entry |-> NoEntry]
    /\ shell = [p \in Shell |-> AtRest]
    /\ catalogRuns = 0

CatalogStep(p) ==
    \/ InitLooks(p) \/ ChecksBackup(p) \/ CopiesInventory(p) \/ CleansInventory(p)
    \/ CreatesStorage(p) \/ InitSeeds(p)
    \/ InstallStarts(p) \/ Bootstraps(p) \/ MergeSaves(p)
    \/ FieldRemoveLoads(p) \/ FieldRemoveScans(p) \/ RetireReads(p) \/ RetireWrites(p)
    \/ FieldRemoveSaves(p)
    \/ DeprecateLoads(p) \/ DeprecateSaves(p)
    \/ SchemaRemoveLoads(p) \/ SchemaRemoveScans(p) \/ SchemaRemoveSaves(p)
    \/ SetReads(p) \/ SetResolves(p) \/ SetWrites(p)

CatalogNext == \E p \in Shell : CatalogStep(p)

CatalogSpec == CatalogInit /\ [][CatalogNext]_catalogVars

-----------------------------------------------------------------------------
(* Properties *)

\* Type invariant of the catalog: every document ever written parses again
\* (an absent schema has no fields) and marks as deprecated only schemas it has.
CatalogTypeOK ==
    /\ file \in [kind : Kinds, doc : Document]
    /\ \A s \in Schema : ~Has(file.doc, s) =>
          file.doc.schemas[s] = NoDescriptor /\ s \notin file.doc.deprecated
    /\ backup \in {"absent", "inventory", "catalog"}
    /\ entries \in [Entry -> Entries]
    /\ catalogRuns \in 0 .. MaxCatalogCommands

\* The catalog loses nothing it should keep, whichever shells run at once.  The
\* step that replaces a legacy inventory finds the whole inventory in the backup
\* file, since load_catalog copies before it writes.  `schema install` without
\* --replace only adds: everything in the document it read is in the document it
\* writes, and a descriptor that changed has a higher version.  A field or a
\* schema leaves the catalog without --force only when no secret uses it, except
\* secrets written by another shell after the scan: the scan and the save are
\* not one transaction.
CatalogLosesNothing ==
    [][\A p \in Shell :
          /\ ShellAt(p, "cleaning") /\ shell'[p] # shell[p] /\ file.kind = "inventory"
               => backup = "inventory"
          /\ ShellAt(p, "merging") /\ shell'[p] # shell[p] /\ file' # file /\ ~shell[p].force
               => \A s \in Schema :
                    LET old == shell[p].doc.schemas[s]
                        new == file'.doc.schemas[s]
                    IN  /\ \A f \in Field : old.fields[f] # NoSpec => new.fields[f] = old.fields[f]
                        /\ old.version > 0 /\ new # old => new.version > old.version
                        /\ file'.doc.deprecated = shell[p].doc.deprecated
          /\ shell'[p] # shell[p] /\ file' # file /\ ~shell[p].force =>
               /\ ShellAt(p, "removing") =>
                     find_field_references(shell[p].schema, shell[p].field) \subseteq shell[p].late
               /\ ShellAt(p, "dropping") =>
                     {x \in Entry : entries[x].schema = shell[p].schema}
                        \subseteq shell[p].late]_catalogVars

=============================================================================
