---------------------------- MODULE StorageProofs ---------------------------
(***************************************************************************)
(* What the local stores keep: the schema catalog that operators edit,     *)
(* and the transaction log that peers write to.  The two components share  *)
(* no variable, and their proofs no lemma.                                 *)
(***************************************************************************)
EXTENDS InboundEnvelopes, SchemaCatalog, TLAPS

---------------------------------------------------------------------------
(***************************************************************************)
(* For any schemas, fields, secrets and shells, the catalog loses nothing  *)
(* it should keep.                                                         *)
(*                                                                         *)
(* No lock connects what a command read with what it writes, so the        *)
(* argument is about what each shell carries: documents that parse, a      *)
(* backup that was there before anything was cleaned, and, for a command   *)
(* about to remove something, that every secret using it by now was        *)
(* written after its scan.                                                 *)
(***************************************************************************)

\* A document that reads back as it was written.
Parses(doc) == \A s \in Schema : ~Has(doc, s) => doc.schemas[s] = NoDescriptor /\ s \notin doc.deprecated
Documents == {doc \in Document : Parses(doc)}

CatalogPcs == {"idle", "backing", "copying", "cleaning", "creating", "seeding", "bootstrapping", "merging",
               "scanning", "retiring", "rewriting", "removing", "deprecating", "finding", "dropping",
               "resolving", "setting"}
CatalogOps == {"none", "init", "install", "field remove", "deprecate", "remove", "set"}
Commands == [op : CatalogOps, pc : CatalogPcs, doc : Documents, schema : Schema \cup {"none"},
             field : Field \cup {"none"}, entry : Entry \cup {"none"}, meta : Entries, force : BOOLEAN,
             yes : BOOLEAN, seed : [Schema -> Seeds], refs : SUBSET Entry, late : SUBSET Entry]

Using(table, s, f) == {x \in Entry : table[x].schema = s /\ table[x].custom[f] = "set"}
Naming(table, s) == {x \in Entry : table[x].schema = s}

\* What a command has made sure of, given the file's kind, the backup and the secrets.
CommandFits(c, kind, saved, table) ==
    /\ c.pc \in {"backing", "copying", "cleaning"} => kind # "missing"
    /\ c.pc = "cleaning" => saved # "absent"
    /\ c.pc \in {"scanning", "retiring", "rewriting", "removing"} =>
           c.schema \in Schema /\ c.field \in Field /\ Has(c.doc, c.schema)
    /\ c.pc \in {"retiring", "rewriting"} => c.force
    /\ c.pc = "removing" /\ ~c.force => Using(table, c.schema, c.field) \subseteq c.late
    /\ c.pc = "deprecating" => c.schema \in Schema /\ Has(c.doc, c.schema)
    /\ c.pc \in {"finding", "dropping"} => c.schema \in Schema
    /\ c.pc = "dropping" /\ ~c.force => Naming(table, c.schema) \subseteq c.late
    /\ c.pc \in {"rewriting", "resolving", "setting"} => c.entry \in Entry

CatalogShared ==
    /\ file \in [kind : Kinds, doc : Documents]
    /\ backup \in {"absent", "inventory", "catalog"}
    /\ file.kind = "inventory" => backup # "catalog"
    /\ entries \in [Entry -> Entries]
    /\ catalogRuns \in 0 .. MaxCatalogCommands

CatInv ==
    /\ CatalogShared
    /\ shell \in [Shell -> Commands]
    /\ \A p \in Shell : CommandFits(shell[p], file.kind, backup, entries)

\* A merge that only adds: every field stays, and what changed has a higher version.
Adds(old, new) ==
    \A s \in Schema :
        /\ \A f \in Field : old.schemas[s].fields[f] # NoSpec =>
               new.schemas[s].fields[f] = old.schemas[s].fields[f]
        /\ old.schemas[s].version > 0 /\ new.schemas[s] # old.schemas[s] =>
               new.schemas[s].version > old.schemas[s].version
        /\ new.deprecated = old.deprecated

MergeAdds(p) ==
    shell'[p] # shell[p] /\ ShellAt(p, "merging") /\ file' # file /\ ~shell[p].force =>
        Adds(shell[p].doc, file'.doc)

CatalogAdds == \A p \in Shell : MergeAdds(p)

---------------------------------------------------------------------------
(* Documents.                                                               *)

LEMMA DocumentTypes ==
    ASSUME NEW doc \in Documents
    PROVE  /\ doc \in Document /\ Parses(doc)
           /\ doc.schemas \in [Schema -> Descriptor] /\ doc.deprecated \subseteq Schema
  BY Zenon DEF Documents, Document

LEMMA AbsentTypes ==
    /\ NoDescriptor \in Descriptor /\ NoDescriptor.version = 0 /\ NoDescriptor \in Seeds
    /\ \A f \in Field : NoDescriptor.fields[f] = NoSpec
    /\ EmptyDocument \in Documents /\ \A s \in Schema : ~Has(EmptyDocument, s)
    /\ NoEntry \in Entries
  <1>1. NoDescriptor \in Descriptor /\ NoDescriptor.version = 0 /\ \A f \in Field : NoDescriptor.fields[f] = NoSpec
    BY Zenon DEF NoDescriptor, Descriptor
  <1>2. NoDescriptor \in Seeds
    BY Zenon, <1>1 DEF Seeds
  <1>3. /\ EmptyDocument \in Document /\ EmptyDocument.deprecated = {}
        /\ \A s \in Schema : EmptyDocument.schemas[s] = NoDescriptor
    BY Zenon, <1>1 DEF EmptyDocument, Document
  <1>4. \A s \in Schema : ~Has(EmptyDocument, s)
    BY <1>1, <1>3 DEF Has
  <1>5. EmptyDocument \in Documents
    BY Zenon, <1>3, <1>4 DEF Documents, Parses
  <1>6. NoEntry \in Entries
    BY Zenon DEF NoEntry, Entries
  <1>. QED BY Zenon, <1>1, <1>2, <1>4, <1>5, <1>6

LEMMA BumpTypes ==
    ASSUME NEW d \in Descriptor
    PROVE  /\ bump_schema_version(d) \in Descriptor /\ bump_schema_version(d).version = d.version + 1
           /\ bump_schema_version(d).version > d.version /\ bump_schema_version(d).version > 0
           /\ bump_schema_version(d).fields = d.fields
  BY DEF bump_schema_version, Descriptor

\* merge_seed_into_registry on one descriptor.
LEMMA FieldsMerged ==
    ASSUME NEW old \in Descriptor, NEW new \in Descriptor, NEW replace \in BOOLEAN
    PROVE  /\ MergeFields(old, new, replace) \in Descriptor
           /\ MergeFields(old, new, replace).version >= old.version
           /\ MergeFields(old, new, replace) # old => MergeFields(old, new, replace).version > old.version
           /\ ~replace => \A f \in Field : old.fields[f] # NoSpec =>
                  MergeFields(old, new, replace).fields[f] = old.fields[f]
  <1>. DEFINE fields == [f \in Field |-> IF old.fields[f] = NoSpec \/ (replace /\ new.fields[f] # NoSpec)
                                         THEN new.fields[f] ELSE old.fields[f]]
              with == [old EXCEPT !.fields = fields]
  <1>1. old.version \in Nat /\ old.fields \in [Field -> Specs \cup {NoSpec}] /\ new.fields \in [Field -> Specs \cup {NoSpec}]
    BY Zenon DEF Descriptor
  <1>2. /\ fields \in [Field -> Specs \cup {NoSpec}]
        /\ ~replace => \A f \in Field : old.fields[f] # NoSpec => fields[f] = old.fields[f]
    BY Zenon, <1>1
  <1>3. MergeFields(old, new, replace) = IF fields = old.fields THEN old ELSE bump_schema_version(with)
    BY Zenon DEF MergeFields
  <1>. HIDE DEF fields
  <1>4. with \in Descriptor /\ with.version = old.version /\ with.fields = fields
    BY Zenon, <1>1, <1>2 DEF Descriptor
  <1>. HIDE DEF with
  <1>5. /\ bump_schema_version(with) \in Descriptor /\ bump_schema_version(with).version > old.version
        /\ bump_schema_version(with).fields = fields
    BY Zenon, <1>4, BumpTypes
  <1>6. \A a, b \in Nat : a > b => a >= b
    OBVIOUS
  <1>7. bump_schema_version(with).version \in Nat /\ old.version >= old.version
    BY <1>1, <1>5 DEF Descriptor
  <1>8. CASE fields = old.fields
    BY Zenon, <1>1, <1>3, <1>7, <1>8
  <1>9. CASE fields # old.fields
    BY Zenon, <1>1, <1>2, <1>3, <1>5, <1>6, <1>7, <1>9
  <1>. QED BY Zenon, <1>8, <1>9

LEMMA MergeParses ==
    ASSUME NEW doc \in Documents, NEW seed \in [Schema -> Seeds], NEW replace \in BOOLEAN
    PROVE  /\ merge_seed_into_registry(doc, seed, replace) \in Documents
           /\ ~replace => Adds(doc, merge_seed_into_registry(doc, seed, replace))
  <1>. DEFINE schemas == [s \in Schema |-> IF Has(doc, s) THEN MergeFields(doc.schemas[s], seed[s], replace) ELSE seed[s]]
              new == [doc EXCEPT !.schemas = schemas]
  <1>1. /\ doc \in Document /\ Parses(doc) /\ doc.schemas \in [Schema -> Descriptor] /\ doc.deprecated \subseteq Schema
    BY Zenon, DocumentTypes
  <1>2. \A s \in Schema : seed[s] \in Descriptor /\ (seed[s].version = 0 => seed[s] = NoDescriptor)
    BY Zenon DEF Seeds
  <1>3. ASSUME NEW s \in Schema, Has(doc, s)
        PROVE  /\ schemas[s] \in Descriptor /\ schemas[s].version > 0
               /\ schemas[s] # doc.schemas[s] => schemas[s].version > doc.schemas[s].version
               /\ ~replace => \A f \in Field : doc.schemas[s].fields[f] # NoSpec =>
                                  schemas[s].fields[f] = doc.schemas[s].fields[f]
    <2>1. schemas[s] = MergeFields(doc.schemas[s], seed[s], replace)
      BY Zenon, <1>3
    <2>2. doc.schemas[s] \in Descriptor /\ seed[s] \in Descriptor /\ doc.schemas[s].version > 0
      BY Zenon, <1>1, <1>2, <1>3 DEF Has
    <2>. HIDE DEF schemas
    <2>3. /\ schemas[s] \in Descriptor /\ schemas[s].version >= doc.schemas[s].version
          /\ schemas[s] # doc.schemas[s] => schemas[s].version > doc.schemas[s].version
          /\ ~replace => \A f \in Field : doc.schemas[s].fields[f] # NoSpec =>
                             schemas[s].fields[f] = doc.schemas[s].fields[f]
      <3>. DEFINE old == doc.schemas[s]
                  from == seed[s]
                  d == schemas[s]
      <3>1. old \in Descriptor /\ from \in Descriptor /\ d = MergeFields(old, from, replace)
        BY Zenon, <2>1, <2>2
      <3>. HIDE DEF old, from, d
      <3>2. /\ d \in Descriptor /\ d.version >= old.version
            /\ d # old => d.version > old.version
            /\ ~replace => \A f \in Field : old.fields[f] # NoSpec => d.fields[f] = old.fields[f]
        <4> DEFINE m == MergeFields(old, from, replace)
        <4>1. /\ m \in Descriptor /\ m.version >= old.version
              /\ m # old => m.version > old.version
              /\ ~replace => \A f \in Field : old.fields[f] # NoSpec => m.fields[f] = old.fields[f]
          BY Zenon, <3>1, FieldsMerged
        <4>2. d = m
          BY Zenon, <3>1
        <4> HIDE DEF m
        <4> QED
          BY Zenon, <4>1, <4>2
      <3>. QED BY Zenon, <3>2 DEF old, d
    <2>4. schemas[s].version \in Nat /\ doc.schemas[s].version \in Nat
      BY Zenon, <2>2, <2>3 DEF Descriptor
    <2>5. schemas[s].version > 0
      BY <2>2, <2>3, <2>4
    <2>. QED BY Zenon, <2>3, <2>5
  <1>4. ASSUME NEW s \in Schema, ~Has(doc, s)
        PROVE  /\ schemas[s] = seed[s] /\ schemas[s] \in Descriptor /\ s \notin doc.deprecated
               /\ \A f \in Field : doc.schemas[s].fields[f] = NoSpec
               /\ doc.schemas[s].version = 0
    <2>1. schemas[s] = seed[s] /\ schemas[s] \in Descriptor
      BY Zenon, <1>2, <1>4
    <2>2. doc.schemas[s] = NoDescriptor /\ s \notin doc.deprecated
      BY Zenon, <1>1, <1>4 DEF Parses
    <2>. QED BY Zenon, <2>1, <2>2, AbsentTypes
  <1>5. new = merge_seed_into_registry(doc, seed, replace)
    BY Zenon DEF merge_seed_into_registry
  <1>6. schemas \in [Schema -> Descriptor]
    <2>1. \A s \in Schema : schemas[s] \in Descriptor
      BY Zenon, <1>3, <1>4
    <2>2. schemas = [s \in Schema |-> schemas[s]]
      BY Zenon
    <2>. HIDE DEF schemas
    <2>. QED BY Zenon, <2>1, <2>2
  <1>. HIDE DEF schemas
  <1>7. new \in Document /\ new.schemas = schemas /\ new.deprecated = doc.deprecated
    BY Zenon, <1>1, <1>6 DEF Document
  <1>. HIDE DEF new
  <1>8. Parses(new)
    <2>. SUFFICES ASSUME NEW s \in Schema, ~Has(new, s) PROVE new.schemas[s] = NoDescriptor /\ s \notin new.deprecated
      BY Zenon DEF Parses
    <2>1. ~Has(doc, s)
      BY Zenon, <1>3, <1>7 DEF Has
    <2>2. schemas[s] = seed[s] /\ s \notin doc.deprecated
      BY Zenon, <1>4, <2>1
    <2>3. seed[s].version = 0
      BY <1>2, <1>7, <2>2 DEF Has, Descriptor
    <2>. QED BY Zenon, <1>2, <1>7, <2>2, <2>3
  <1>9. new \in Documents
    BY Zenon, <1>7, <1>8 DEF Documents
  <1>10. ASSUME ~replace PROVE Adds(doc, new)
    <2>1. ~(0 > 0)
      OBVIOUS
    <2>. QED BY ZenonT(30), <1>3, <1>4, <1>7, <1>10, <2>1 DEF Adds
  <1>. QED BY Zenon, <1>5, <1>9, <1>10

LEMMA SeedCatalogParses == SeedCatalog \in Documents
  <1>1. FALSE \in BOOLEAN /\ Bundled \in [Schema -> Seeds]
    BY Zenon, CatalogAssumption
  <1>. QED BY Zenon, <1>1, AbsentTypes, MergeParses DEF SeedCatalog

\* One descriptor replaced by one that exists, or by none.
LEMMA SchemaReplaced ==
    ASSUME NEW doc \in Documents, NEW s \in Schema, NEW d \in Descriptor
    PROVE  /\ d.version > 0 => WithSchema(doc, s, d) \in Documents
           /\ d.version > 0 => [WithSchema(doc, s, d) EXCEPT !.deprecated = @ \cup {s}] \in Documents
           /\ d = NoDescriptor => [WithSchema(doc, s, d) EXCEPT !.deprecated = @ \ {s}] \in Documents
  <1>. DEFINE new == WithSchema(doc, s, d)
              marked == [new EXCEPT !.deprecated = @ \cup {s}]
              cleared == [new EXCEPT !.deprecated = @ \ {s}]
  <1>1. /\ doc \in Document /\ Parses(doc) /\ doc.schemas \in [Schema -> Descriptor] /\ doc.deprecated \subseteq Schema
    BY Zenon, DocumentTypes
  <1>2. /\ new \in Document /\ new.deprecated = doc.deprecated /\ new.schemas[s] = d
        /\ new.schemas \in [Schema -> Descriptor]
        /\ \A t \in Schema : t # s => new.schemas[t] = doc.schemas[t]
    BY Zenon, <1>1 DEF WithSchema, Document
  <1>. HIDE DEF new
  <1>3. /\ marked \in Document /\ marked.deprecated = doc.deprecated \cup {s} /\ marked.schemas = new.schemas
        /\ cleared \in Document /\ cleared.deprecated = doc.deprecated \ {s} /\ cleared.schemas = new.schemas
    BY Zenon, <1>1, <1>2 DEF Document
  <1>. HIDE DEF marked, cleared
  <1>4. \A t \in Schema : ~Has(doc, t) => doc.schemas[t] = NoDescriptor /\ t \notin doc.deprecated
    BY Zenon, <1>1 DEF Parses
  <1>5. d.version > 0 => Parses(new) /\ Parses(marked)
    BY ZenonT(30), <1>2, <1>3, <1>4 DEF Parses, Has
  <1>6. d = NoDescriptor => Parses(cleared)
    BY Zenon, <1>2, <1>3, <1>4 DEF Parses, Has
  <1>. QED BY Zenon, <1>2, <1>3, <1>5, <1>6 DEF Documents, new, marked, cleared

---------------------------------------------------------------------------
(* Commands.                                                                *)

\* The same command, apart from its place and what the step filled in.
SameAsk(d, c) == /\ d.schema = c.schema /\ d.field = c.field /\ d.force = c.force /\ d.doc = c.doc
                 /\ d.late = c.late

LEMMA CommandTypes ==
    ASSUME NEW c \in Commands
    PROVE  /\ c.pc \in CatalogPcs /\ c.doc \in Documents /\ c.schema \in Schema \cup {"none"}
           /\ c.field \in Field \cup {"none"} /\ c.entry \in Entry \cup {"none"} /\ c.meta \in Entries
           /\ c.force \in BOOLEAN /\ c.yes \in BOOLEAN /\ c.seed \in [Schema -> Seeds]
           /\ c.refs \subseteq Entry /\ c.late \subseteq Entry
  BY Zenon DEF Commands

LEMMA PcMoves ==
    ASSUME NEW c \in Commands, NEW stage \in CatalogPcs
    PROVE  /\ [c EXCEPT !.pc = stage] \in Commands /\ [c EXCEPT !.pc = stage].pc = stage
           /\ SameAsk([c EXCEPT !.pc = stage], c)
           /\ [c EXCEPT !.pc = stage].refs = c.refs /\ [c EXCEPT !.pc = stage].entry = c.entry
           /\ [c EXCEPT !.pc = stage].meta = c.meta /\ [c EXCEPT !.pc = stage].seed = c.seed
  BY Zenon DEF Commands, SameAsk

LEMMA DocMoves ==
    ASSUME NEW c \in Commands, NEW doc \in Documents
    PROVE  /\ [c EXCEPT !.doc = doc] \in Commands /\ [c EXCEPT !.doc = doc].pc = c.pc
           /\ [c EXCEPT !.doc = doc].doc = doc /\ [c EXCEPT !.doc = doc].schema = c.schema
           /\ [c EXCEPT !.doc = doc].field = c.field /\ [c EXCEPT !.doc = doc].force = c.force
           /\ [c EXCEPT !.doc = doc].seed = c.seed
  BY Zenon DEF Commands

LEMMA RefsMove ==
    ASSUME NEW c \in Commands, NEW refs \in SUBSET Entry
    PROVE  /\ [c EXCEPT !.refs = refs] \in Commands /\ [c EXCEPT !.refs = refs].pc = c.pc
           /\ [c EXCEPT !.refs = refs].refs = refs /\ [c EXCEPT !.refs = refs].entry = c.entry
           /\ SameAsk([c EXCEPT !.refs = refs], c)
  BY Zenon DEF Commands, SameAsk

LEMMA EntryMoves ==
    ASSUME NEW c \in Commands, NEW meta \in Entries, NEW x \in Entry
    PROVE  /\ [[c EXCEPT !.entry = x] EXCEPT !.meta = meta] \in Commands
           /\ [[c EXCEPT !.entry = x] EXCEPT !.meta = meta].pc = c.pc
           /\ [[c EXCEPT !.entry = x] EXCEPT !.meta = meta].entry = x
           /\ SameAsk([[c EXCEPT !.entry = x] EXCEPT !.meta = meta], c)
  BY Zenon DEF Commands, SameAsk

LEMMA MetaMoves ==
    ASSUME NEW c \in Commands, NEW meta \in Entries
    PROVE  /\ [c EXCEPT !.meta = meta] \in Commands /\ [c EXCEPT !.meta = meta].pc = c.pc
           /\ [c EXCEPT !.meta = meta].entry = c.entry
           /\ SameAsk([c EXCEPT !.meta = meta], c)
  BY Zenon DEF Commands, SameAsk

LEMMA LateGrows ==
    ASSUME NEW c \in Commands, NEW x \in Entry
    PROVE  LET d == [c EXCEPT !.late = @ \cup {x}]
           IN  /\ d \in Commands /\ d.pc = c.pc /\ d.late = c.late \cup {x} /\ d.schema = c.schema
               /\ d.field = c.field /\ d.force = c.force /\ d.doc = c.doc /\ d.entry = c.entry
  BY Zenon DEF Commands

LEMMA PcsDiffer == /\ "idle" \in CatalogPcs /\ "merging" \in CatalogPcs /\ AtRest.pc = "idle"
  BY Zenon DEF CatalogPcs, AtRest

LEMMA RestTypes == AtRest \in Commands
  <1>1. Bundled \in [Schema -> Seeds] /\ EmptyDocument \in Documents /\ NoEntry \in Entries
    BY Zenon, CatalogAssumption, AbsentTypes
  <1>2. FALSE \in BOOLEAN /\ {} \in SUBSET Entry
    BY Zenon
  <1>3. "none" \in CatalogOps
    BY Zenon DEF CatalogOps
  <1>4. "idle" \in CatalogPcs
    BY Zenon, PcsDiffer
  <1>. QED BY Zenon, <1>1, <1>2, <1>3, <1>4 DEF AtRest, Commands

LEMMA BegunTypes ==
    ASSUME NEW op \in CatalogOps, NEW stage \in CatalogPcs
    PROVE  /\ Begun(op, stage) \in Commands /\ Begun(op, stage).pc = stage /\ Begun(op, stage).force = FALSE
           /\ Begun(op, stage).late = {}
  BY ZenonT(30), RestTypes DEF Begun, Commands, AtRest

LEMMA LoadedTypes ==
    ASSUME file.doc \in Documents
    PROVE  \A op \in CatalogOps, stage \in CatalogPcs, s \in Schema :
               /\ LoadedFor(op, stage, s) \in Commands /\ LoadedFor(op, stage, s).pc = stage
               /\ LoadedFor(op, stage, s).doc = file.doc /\ LoadedFor(op, stage, s).schema = s
  <1>. SUFFICES ASSUME NEW op \in CatalogOps, NEW stage \in CatalogPcs, NEW s \in Schema
                PROVE  /\ LoadedFor(op, stage, s) \in Commands /\ LoadedFor(op, stage, s).pc = stage
                       /\ LoadedFor(op, stage, s).doc = file.doc /\ LoadedFor(op, stage, s).schema = s
    BY Zenon
  <1>1. Begun(op, stage) \in Commands /\ Begun(op, stage).pc = stage
    BY Zenon, BegunTypes
  <1>. QED BY Zenon, <1>1 DEF LoadedFor, Commands

---------------------------------------------------------------------------
(* Steps.                                                                   *)

\* A command moves while no secret changes.
LEMMA CatalogMoves ==
    ASSUME CatInv, NEW p \in Shell, NEW rec \in Commands, Becomes(p, rec), CatalogShared',
           entries' = entries,
           file.kind # "missing" => file'.kind # "missing",
           backup # "absent" => backup' # "absent",
           CommandFits(rec, file'.kind, backup', entries),
           ShellAt(p, "merging") /\ file' # file /\ ~shell[p].force => Adds(shell[p].doc, file'.doc)
    PROVE  CatInv' /\ CatalogAdds
  <1>1. /\ shell' \in [Shell -> Commands] /\ shell'[p] = rec
        /\ \A q \in Shell : q # p => shell'[q] = shell[q]
    BY Zenon DEF CatInv, Becomes
  <1>2. ASSUME NEW q \in Shell PROVE CommandFits(shell[q], file.kind, backup, entries)
    BY Zenon DEF CatInv
  <1>3. ASSUME NEW q \in Shell, q # p PROVE CommandFits(shell[q], file'.kind, backup', entries)
    BY Zenon, <1>2 DEF CommandFits
  <1>4. \A q \in Shell : CommandFits(shell'[q], file'.kind, backup', entries')
    BY Zenon, <1>1, <1>3
  <1>5. CatInv'
    BY Zenon, <1>1, <1>4 DEF CatInv
  <1>6. CatalogAdds
    BY Zenon, <1>1 DEF CatalogAdds, MergeAdds
  <1>. QED BY Zenon, <1>5, <1>6

\* Nothing but the command moves.
LEMMA CommandMoves ==
    ASSUME CatInv, NEW p \in Shell, NEW rec \in Commands, Becomes(p, rec),
           UNCHANGED <<file, backup, entries>>, catalogRuns' \in 0 .. MaxCatalogCommands,
           CommandFits(rec, file.kind, backup, entries)
    PROVE  CatInv' /\ CatalogAdds
  <1>1. file' = file /\ backup' = backup /\ entries' = entries
    BY Zenon
  <1>2. CatalogShared'
    BY Zenon, <1>1 DEF CatInv, CatalogShared
  <1>. QED BY Zenon, <1>1, <1>2, CatalogMoves

\* A command writes the catalog.
LEMMA CatalogWritten ==
    ASSUME CatInv, NEW p \in Shell, NEW rec \in Commands, Becomes(p, rec),
           NEW doc \in Documents, WriteCatalog(doc), UNCHANGED <<backup, entries, catalogRuns>>,
           rec.pc \in {"idle", "creating", "seeding", "bootstrapping", "merging"},
           ShellAt(p, "merging") /\ ~shell[p].force => Adds(shell[p].doc, doc)
    PROVE  CatInv' /\ CatalogAdds
  <1>1. backup' = backup /\ entries' = entries /\ catalogRuns' = catalogRuns
    BY Zenon
  <1>2. file' \in [kind : Kinds, doc : Documents] /\ file'.kind = "catalog" /\ file'.doc = doc
    BY Zenon DEF WriteCatalog, Kinds
  <1>3. "catalog" # "missing" /\ "catalog" # "inventory"
    BY Zenon
  <1>4. CatalogShared'
    BY Zenon, <1>1, <1>2, <1>3 DEF CatInv, CatalogShared
  <1>5. CommandFits(rec, file'.kind, backup', entries)
    BY Zenon DEF CommandFits
  <1>. QED BY Zenon, <1>1, <1>2, <1>3, <1>4, <1>5, CatalogMoves

\* A command writes a secret: every other command that has scanned knows.
LEMMA SecretWritten ==
    ASSUME CatInv, NEW p \in Shell, NEW x \in Entry, NEW meta \in Entries, NEW rec \in Commands,
           WriteEntry(p, x, meta, rec), UNCHANGED <<file, backup, catalogRuns>>,
           rec.pc = "idle" \/ (rec.pc \in {"removing", "retiring"} /\ rec.force /\ rec.schema \in Schema
                               /\ rec.field \in Field /\ Has(rec.doc, rec.schema))
    PROVE  CatInv' /\ CatalogAdds
  <1>1. backup' = backup /\ file' = file /\ catalogRuns' = catalogRuns
    BY Zenon
  <1>2. entries' \in [Entry -> Entries] /\ \A y \in Entry : y # x => entries'[y] = entries[y]
    BY Zenon DEF WriteEntry, CatInv, CatalogShared
  <1>3. CatalogShared'
    BY Zenon, <1>1, <1>2 DEF CatInv, CatalogShared
  <1>4. CommandFits(rec, file.kind, backup, entries')
    BY Zenon DEF CommandFits
  <1>5. ASSUME NEW q \in Shell, q # p
        PROVE  shell'[q] \in Commands /\ CommandFits(shell'[q], file.kind, backup, entries')
    <2>1. shell[q] \in Commands /\ CommandFits(shell[q], file.kind, backup, entries)
      BY Zenon DEF CatInv
    <2>2. CASE shell[q].pc \in {"retiring", "rewriting", "removing", "dropping"}
      <3>1. shell'[q] = [shell[q] EXCEPT !.late = @ \cup {x}]
        BY Zenon, <1>5, <2>2 DEF WriteEntry
      <3>2. /\ shell'[q] \in Commands /\ shell'[q].pc = shell[q].pc /\ shell'[q].late = shell[q].late \cup {x}
            /\ shell'[q].schema = shell[q].schema /\ shell'[q].field = shell[q].field
            /\ shell'[q].force = shell[q].force /\ shell'[q].doc = shell[q].doc /\ shell'[q].entry = shell[q].entry
        BY <2>1, <3>1, LateGrows
      <3>3. /\ \A s, f : Using(entries', s, f) \subseteq Using(entries, s, f) \cup {x}
            /\ \A s : Naming(entries', s) \subseteq Naming(entries, s) \cup {x}
        BY Zenon, <1>2 DEF Using, Naming
      <3>. HIDE DEF Using, Naming
      <3>4. CommandFits(shell'[q], file.kind, backup, entries')
        BY ZenonT(30), <2>1, <3>2, <3>3 DEF CommandFits
      <3>. QED BY Zenon, <3>2, <3>4
    <2>3. CASE shell[q].pc \notin {"retiring", "rewriting", "removing", "dropping"}
      <3>1. shell'[q] = shell[q]
        BY Zenon, <1>5, <2>3 DEF WriteEntry
      <3>2. CommandFits(shell[q], file.kind, backup, entries')
        BY Zenon, <2>1, <2>3 DEF CommandFits
      <3>. QED BY Zenon, <2>1, <3>1, <3>2
    <2>. QED BY Zenon, <2>2, <2>3
  <1>6. shell'[p] = rec
    BY Zenon DEF WriteEntry
  <1>7. \A q \in Shell : shell'[q] \in Commands /\ CommandFits(shell'[q], file.kind, backup, entries')
    BY Zenon, <1>4, <1>5, <1>6
  <1>8. shell' = [q \in Shell |-> shell'[q]]
    BY Zenon DEF WriteEntry
  <1>9. shell' \in [Shell -> Commands]
    BY Zenon, <1>7, <1>8
  <1>10. CatInv'
    BY Zenon, <1>1, <1>3, <1>7, <1>9 DEF CatInv
  <1>11. CatalogAdds
    BY Zenon, <1>1 DEF CatalogAdds, MergeAdds
  <1>. QED BY Zenon, <1>10, <1>11

LEMMA SharedFacts ==
    ASSUME CatInv
    PROVE  /\ file.kind \in Kinds /\ file.doc \in Documents /\ entries \in [Entry -> Entries]
           /\ catalogRuns \in 0 .. MaxCatalogCommands
           /\ \A p \in Shell : /\ shell[p] \in Commands /\ CommandFits(shell[p], file.kind, backup, entries)
  BY Zenon DEF CatInv, CatalogShared

LEMMA CommandCounts ==
    ASSUME CatInv, NEW p \in Shell, Starts(p)
    PROVE  catalogRuns' \in 0 .. MaxCatalogCommands
  BY CatalogAssumption, SharedFacts DEF Starts

---------------------------------------------------------------------------
(* init operator and schema install.                                        *)

LEMMA InitLooksKeeps ==
    ASSUME CatInv, NEW p \in Shell, InitLooks(p)
    PROVE  CatInv' /\ CatalogAdds
  <1>. DEFINE stage == IF file.kind = "inventory" THEN "backing" ELSE "creating"
              rec == Begun("init", stage)
  <1>1. stage \in CatalogPcs /\ (stage = "backing" => file.kind # "missing") /\ stage \in {"backing", "creating"}
    BY Zenon DEF CatalogPcs
  <1>2. Becomes(p, rec) /\ UNCHANGED <<file, backup, entries>> /\ Starts(p)
    BY Zenon DEF InitLooks
  <1>3. "init" \in CatalogOps
    BY Zenon DEF CatalogOps
  <1>. HIDE DEF stage
  <1>4. rec \in Commands /\ rec.pc = stage
    BY Zenon, <1>1, <1>3, BegunTypes
  <1>. HIDE DEF rec
  <1>5. CommandFits(rec, file.kind, backup, entries)
    BY Zenon, <1>1, <1>4 DEF CommandFits
  <1>6. catalogRuns' \in 0 .. MaxCatalogCommands
    BY Zenon, <1>2, CommandCounts
  <1>. QED BY Zenon, <1>2, <1>4, <1>5, <1>6, CommandMoves

LEMMA ChecksBackupKeeps ==
    ASSUME CatInv, NEW p \in Shell, ChecksBackup(p)
    PROVE  CatInv' /\ CatalogAdds
  <1>. DEFINE stage == IF backup = "absent" THEN "copying" ELSE "cleaning"
              rec == [shell[p] EXCEPT !.pc = stage]
  <1>1. stage \in CatalogPcs /\ (stage = "cleaning" => backup # "absent") /\ stage \in {"copying", "cleaning"}
    BY Zenon DEF CatalogPcs
  <1>2. Becomes(p, rec) /\ UNCHANGED <<file, backup, entries, catalogRuns>> /\ shell[p].pc = "backing"
    BY Zenon DEF ChecksBackup, ShellAt
  <1>3. shell[p] \in Commands /\ CommandFits(shell[p], file.kind, backup, entries)
        /\ catalogRuns \in 0 .. MaxCatalogCommands
    BY Zenon, SharedFacts
  <1>. HIDE DEF stage
  <1>4. rec \in Commands /\ rec.pc = stage
    BY Zenon, <1>1, <1>3, PcMoves
  <1>. HIDE DEF rec
  <1>5. CommandFits(rec, file.kind, backup, entries)
    BY Zenon, <1>1, <1>2, <1>3, <1>4 DEF CommandFits
  <1>6. UNCHANGED <<file, backup, entries>> /\ catalogRuns' \in 0 .. MaxCatalogCommands
    BY Zenon, <1>2, <1>3
  <1>. QED BY Zenon, <1>2, <1>4, <1>5, <1>6, CommandMoves

LEMMA CopiesInventoryKeeps ==
    ASSUME CatInv, NEW p \in Shell, CopiesInventory(p)
    PROVE  CatInv' /\ CatalogAdds
  <1>. DEFINE rec == [shell[p] EXCEPT !.pc = "cleaning"]
  <1>1. "cleaning" \in CatalogPcs
    BY Zenon DEF CatalogPcs
  <1>2. /\ Becomes(p, rec) /\ file' = file /\ entries' = entries /\ catalogRuns' = catalogRuns
        /\ backup' = file.kind /\ shell[p].pc = "copying"
    BY Zenon DEF CopiesInventory, ShellAt
  <1>3. shell[p] \in Commands /\ CommandFits(shell[p], file.kind, backup, entries) /\ file.kind \in Kinds
    BY Zenon, SharedFacts
  <1>4. rec \in Commands /\ rec.pc = "cleaning"
    BY Zenon, <1>1, <1>3, PcMoves
  <1>. HIDE DEF rec
  <1>5. file.kind \in {"inventory", "catalog"}
    BY Zenon, <1>2, <1>3 DEF CommandFits, Kinds
  <1>6. CatalogShared'
    BY Zenon, <1>2, <1>5 DEF CatInv, CatalogShared
  <1>7. file'.kind = file.kind /\ backup' # "absent" /\ file.kind # "missing"
    BY Zenon, <1>2, <1>5
  <1>8. CommandFits(rec, file'.kind, backup', entries)
    BY Zenon, <1>4, <1>7 DEF CommandFits
  <1>. QED BY Zenon, <1>2, <1>4, <1>6, <1>7, <1>8, CatalogMoves

LEMMA CleansInventoryKeeps ==
    ASSUME CatInv, NEW p \in Shell, CleansInventory(p)
    PROVE  CatInv' /\ CatalogAdds
  <1>. DEFINE rec == [shell[p] EXCEPT !.pc = "creating"]
  <1>1. "creating" \in CatalogPcs /\ "cleaning" # "merging"
    BY Zenon DEF CatalogPcs
  <1>2. /\ Becomes(p, rec) /\ WriteCatalog(SeedCatalog) /\ UNCHANGED <<backup, entries, catalogRuns>>
        /\ shell[p].pc = "cleaning"
    BY Zenon DEF CleansInventory, ShellAt
  <1>3. shell[p] \in Commands
    BY Zenon, SharedFacts
  <1>4. rec \in Commands /\ rec.pc = "creating"
    BY Zenon, <1>1, <1>3, PcMoves
  <1>. HIDE DEF rec
  <1>5. ~ShellAt(p, "merging") /\ rec.pc \in {"idle", "creating", "seeding", "bootstrapping", "merging"}
    BY Zenon, <1>1, <1>2, <1>4 DEF ShellAt
  <1>. QED BY Zenon, <1>2, <1>4, <1>5, SeedCatalogParses, CatalogWritten

LEMMA CreatesStorageKeeps ==
    ASSUME CatInv, NEW p \in Shell, CreatesStorage(p)
    PROVE  CatInv' /\ CatalogAdds
  <1>. DEFINE rec == [shell[p] EXCEPT !.pc = "seeding"]
  <1>1. "seeding" \in CatalogPcs /\ "creating" # "merging"
    BY Zenon DEF CatalogPcs
  <1>2. /\ UNCHANGED <<backup, entries, catalogRuns>> /\ shell[p].pc = "creating"
        /\ \/ WriteCatalog(SeedCatalog) /\ Becomes(p, rec)
           \/ UNCHANGED file /\ Becomes(p, rec)
           \/ UNCHANGED file /\ Becomes(p, AtRest)
    BY Zenon DEF CreatesStorage, ShellAt
  <1>3. shell[p] \in Commands /\ catalogRuns \in 0 .. MaxCatalogCommands
    BY Zenon, SharedFacts
  <1>4. rec \in Commands /\ rec.pc = "seeding"
    BY Zenon, <1>1, <1>3, PcMoves
  <1>. HIDE DEF rec
  <1>5. /\ ~ShellAt(p, "merging") /\ rec.pc \in {"idle", "creating", "seeding", "bootstrapping", "merging"}
        /\ AtRest.pc \in {"idle", "creating", "seeding", "bootstrapping", "merging"}
    BY Zenon, <1>1, <1>2, <1>4, PcsDiffer DEF ShellAt
  <1>6. CASE WriteCatalog(SeedCatalog) /\ Becomes(p, rec)
    BY Zenon, <1>2, <1>4, <1>5, <1>6, SeedCatalogParses, CatalogWritten
  <1>7. ASSUME UNCHANGED file PROVE UNCHANGED <<file, backup, entries>> /\ catalogRuns' \in 0 .. MaxCatalogCommands
    BY Zenon, <1>2, <1>3, <1>7
  <1>8. CommandFits(rec, file.kind, backup, entries) /\ CommandFits(AtRest, file.kind, backup, entries)
    BY Zenon, <1>5 DEF CommandFits
  <1>9. CASE UNCHANGED file /\ Becomes(p, rec)
    BY Zenon, <1>4, <1>7, <1>8, <1>9, CommandMoves
  <1>10. CASE UNCHANGED file /\ Becomes(p, AtRest)
    BY Zenon, RestTypes, <1>7, <1>8, <1>10, CommandMoves
  <1>. QED BY Zenon, <1>2, <1>6, <1>9, <1>10

\* merge_seed_files_into_store reads, or finds that there is no catalog.
LEMMA MergeReads ==
    ASSUME CatInv, NEW p \in Shell, NEW c \in Commands, ReadsForMerge(p, c),
           UNCHANGED <<file, backup, entries>>, catalogRuns' \in 0 .. MaxCatalogCommands
    PROVE  CatInv' /\ CatalogAdds
  <1>. DEFINE loaded == [[c EXCEPT !.pc = "merging"] EXCEPT !.doc = file.doc]
              waiting == [c EXCEPT !.pc = "bootstrapping"]
  <1>1. "merging" \in CatalogPcs /\ "bootstrapping" \in CatalogPcs
    BY Zenon DEF CatalogPcs
  <1>2. Becomes(p, loaded) \/ Becomes(p, waiting)
    BY Zenon DEF ReadsForMerge
  <1>3. file.doc \in Documents
    BY Zenon, SharedFacts
  <1>4. [c EXCEPT !.pc = "merging"] \in Commands /\ [c EXCEPT !.pc = "merging"].pc = "merging"
        /\ waiting \in Commands /\ waiting.pc = "bootstrapping"
    BY Zenon, <1>1, PcMoves
  <1>5. loaded \in Commands /\ loaded.pc = "merging"
    BY Zenon, <1>3, <1>4, DocMoves
  <1>. HIDE DEF loaded, waiting
  <1>6. CommandFits(loaded, file.kind, backup, entries) /\ CommandFits(waiting, file.kind, backup, entries)
    BY Zenon, <1>4, <1>5 DEF CommandFits
  <1>. QED BY Zenon, <1>2, <1>4, <1>5, <1>6, CommandMoves

LEMMA InitSeedsKeeps ==
    ASSUME CatInv, NEW p \in Shell, InitSeeds(p)
    PROVE  CatInv' /\ CatalogAdds
  <1>1. ReadsForMerge(p, shell[p]) /\ UNCHANGED <<file, backup, entries, catalogRuns>>
    BY Zenon DEF InitSeeds
  <1>2. shell[p] \in Commands /\ catalogRuns \in 0 .. MaxCatalogCommands
    BY Zenon, SharedFacts
  <1>3. UNCHANGED <<file, backup, entries>> /\ catalogRuns' \in 0 .. MaxCatalogCommands
    BY Zenon, <1>1, <1>2
  <1>. QED BY Zenon, <1>1, <1>2, <1>3, MergeReads

LEMMA InstallStartsKeeps ==
    ASSUME CatInv, NEW p \in Shell, InstallStarts(p)
    PROVE  CatInv' /\ CatalogAdds
  <1>. DEFINE asked == Begun("install", "idle")
  <1>1. PICK seed \in SeedFiles, replace \in BOOLEAN :
            ReadsForMerge(p, [[asked EXCEPT !.seed = seed] EXCEPT !.force = replace])
    BY Zenon DEF InstallStarts
  <1>2. UNCHANGED <<file, backup, entries>> /\ catalogRuns' \in 0 .. MaxCatalogCommands
    BY Zenon, CommandCounts DEF InstallStarts
  <1>3. "install" \in CatalogOps /\ seed \in [Schema -> Seeds]
    BY Zenon, CatalogAssumption DEF CatalogOps
  <1>4. asked \in Commands
    BY Zenon, <1>3, BegunTypes, PcsDiffer
  <1>. HIDE DEF asked
  <1>5. [[asked EXCEPT !.seed = seed] EXCEPT !.force = replace] \in Commands
    BY Zenon, <1>3, <1>4 DEF Commands
  <1>. QED BY Zenon, <1>1, <1>2, <1>5, MergeReads

LEMMA BootstrapsKeeps ==
    ASSUME CatInv, NEW p \in Shell, Bootstraps(p)
    PROVE  CatInv' /\ CatalogAdds
  <1>. DEFINE rec == [[shell[p] EXCEPT !.pc = "merging"] EXCEPT !.doc = SeedCatalog]
  <1>1. "merging" \in CatalogPcs /\ "bootstrapping" # "merging"
    BY Zenon DEF CatalogPcs
  <1>2. /\ Becomes(p, rec) /\ WriteCatalog(SeedCatalog) /\ UNCHANGED <<backup, entries, catalogRuns>>
        /\ shell[p].pc = "bootstrapping"
    BY Zenon DEF Bootstraps, ShellAt
  <1>3. shell[p] \in Commands
    BY Zenon, SharedFacts
  <1>4. [shell[p] EXCEPT !.pc = "merging"] \in Commands /\ [shell[p] EXCEPT !.pc = "merging"].pc = "merging"
    BY Zenon, <1>1, <1>3, PcMoves
  <1>5. rec \in Commands /\ rec.pc = "merging"
    BY Zenon, <1>4, SeedCatalogParses, DocMoves
  <1>. HIDE DEF rec
  <1>6. ~ShellAt(p, "merging") /\ rec.pc \in {"idle", "creating", "seeding", "bootstrapping", "merging"}
    BY Zenon, <1>1, <1>2, <1>5 DEF ShellAt
  <1>. QED BY Zenon, <1>2, <1>5, <1>6, SeedCatalogParses, CatalogWritten

\* A command that ends without writing.
LEMMA CommandEnds ==
    ASSUME CatInv, NEW p \in Shell, Becomes(p, AtRest), UNCHANGED <<file, backup, entries, catalogRuns>>
    PROVE  CatInv' /\ CatalogAdds
  <1>1. UNCHANGED <<file, backup, entries>> /\ catalogRuns' \in 0 .. MaxCatalogCommands
    BY Zenon, SharedFacts
  <1>2. AtRest.pc \in {"idle", "creating", "seeding", "bootstrapping", "merging"}
    BY Zenon, PcsDiffer
  <1>3. CommandFits(AtRest, file.kind, backup, entries)
    BY Zenon, <1>2 DEF CommandFits
  <1>. QED BY Zenon, <1>1, <1>3, RestTypes, CommandMoves

\* A command that ends by writing the catalog.
LEMMA CommandSaves ==
    ASSUME CatInv, NEW p \in Shell, Becomes(p, AtRest), UNCHANGED <<backup, entries, catalogRuns>>,
           NEW doc \in Documents, WriteCatalog(doc),
           ShellAt(p, "merging") /\ ~shell[p].force => Adds(shell[p].doc, doc)
    PROVE  CatInv' /\ CatalogAdds
  <1>1. AtRest.pc \in {"idle", "creating", "seeding", "bootstrapping", "merging"}
    BY Zenon, PcsDiffer
  <1>. QED BY Zenon, <1>1, RestTypes, CatalogWritten

LEMMA MergeSavesKeeps ==
    ASSUME CatInv, NEW p \in Shell, MergeSaves(p)
    PROVE  CatInv' /\ CatalogAdds
  <1>. DEFINE new == merge_seed_into_registry(shell[p].doc, shell[p].seed, shell[p].force)
  <1>1. /\ Becomes(p, AtRest) /\ UNCHANGED <<backup, entries, catalogRuns>>
        /\ UNCHANGED file \/ WriteCatalog(new)
    BY Zenon DEF MergeSaves
  <1>2. shell[p] \in Commands
    BY Zenon, SharedFacts
  <1>3. shell[p].doc \in Documents /\ shell[p].seed \in [Schema -> Seeds] /\ shell[p].force \in BOOLEAN
    BY Zenon, <1>2, CommandTypes
  <1>4. new \in Documents /\ (~shell[p].force => Adds(shell[p].doc, new))
    BY Zenon, <1>3, MergeParses
  <1>. HIDE DEF new
  <1>5. CASE UNCHANGED file
    <2>1. UNCHANGED <<file, backup, entries, catalogRuns>>
      BY Zenon, <1>1, <1>5
    <2>. QED BY Zenon, <1>1, <2>1, CommandEnds
  <1>6. CASE WriteCatalog(new)
    BY Zenon, <1>1, <1>4, <1>6, CommandSaves
  <1>. QED BY Zenon, <1>1, <1>5, <1>6

---------------------------------------------------------------------------
(* schema field remove, schema deprecate, schema remove.                    *)

\* A command starts with the catalog it loaded for one of its schemas.
LEMMA FieldRemoveLoadsKeeps ==
    ASSUME CatInv, NEW p \in Shell, FieldRemoveLoads(p)
    PROVE  CatInv' /\ CatalogAdds
  <1>1. PICK s \in Schema, f \in Field, force \in BOOLEAN, yes \in BOOLEAN :
            /\ Allowed(file.doc, s)
            /\ Becomes(p, [[[LoadedFor("field remove", "scanning", s)
                   EXCEPT !.field = f] EXCEPT !.force = force] EXCEPT !.yes = yes])
    BY Zenon DEF FieldRemoveLoads
  <1>. DEFINE c == LoadedFor("field remove", "scanning", s)
              rec == [[[c EXCEPT !.field = f] EXCEPT !.force = force] EXCEPT !.yes = yes]
  <1>2. UNCHANGED <<file, backup, entries>> /\ catalogRuns' \in 0 .. MaxCatalogCommands
    BY Zenon, CommandCounts DEF FieldRemoveLoads
  <1>3. "field remove" \in CatalogOps /\ "scanning" \in CatalogPcs /\ file.doc \in Documents
    BY Zenon, SharedFacts DEF CatalogOps, CatalogPcs
  <1>4. c \in Commands /\ c.pc = "scanning" /\ c.doc = file.doc /\ c.schema = s
    <2>1. "scanning" \in CatalogPcs /\ file.doc \in Documents
      BY Zenon, <1>3
    <2>2. \A op \in CatalogOps :
            LET x == LoadedFor(op, "scanning", s)
            IN  x \in Commands /\ x.pc = "scanning" /\ x.doc = file.doc /\ x.schema = s
      <3>. HIDE DEF c, rec
      <3>. QED BY SMTT(30), <2>1, LoadedTypes
    <2>. QED BY Zenon, <1>3, <2>2
  <1>. HIDE DEF c
  <1>5. rec \in Commands /\ rec.pc = "scanning" /\ rec.doc = file.doc /\ rec.schema = s /\ rec.field = f
    BY ZenonT(30), <1>4 DEF Commands
  <1>6. Becomes(p, rec)
    BY Zenon, <1>1 DEF c
  <1>. HIDE DEF rec
  <1>7. Has(file.doc, s)
    BY Zenon, <1>1 DEF Allowed
  <1>8. CommandFits(rec, file.kind, backup, entries)
    BY Zenon, <1>5, <1>7 DEF CommandFits
  <1>. QED BY Zenon, <1>2, <1>5, <1>6, <1>8, CommandMoves

LEMMA FieldRemoveScansKeeps ==
    ASSUME CatInv, NEW p \in Shell, FieldRemoveScans(p)
    PROVE  CatInv' /\ CatalogAdds
  <1>. DEFINE refs == find_field_references(shell[p].schema, shell[p].field)
              found == [shell[p] EXCEPT !.refs = refs]
              retire == [found EXCEPT !.pc = "retiring"]
              remove == [found EXCEPT !.pc = "removing"]
  <1>1. /\ \/ Becomes(p, AtRest)
           \/ shell[p].force /\ Becomes(p, retire)
           \/ (refs = {} \/ shell[p].force) /\ Becomes(p, remove)
        /\ UNCHANGED <<file, backup, entries, catalogRuns>> /\ shell[p].pc = "scanning"
    BY Zenon DEF FieldRemoveScans, ShellAt
  <1>2. shell[p] \in Commands /\ CommandFits(shell[p], file.kind, backup, entries)
        /\ catalogRuns \in 0 .. MaxCatalogCommands
    BY Zenon, SharedFacts
  <1>3. refs \in SUBSET Entry
    BY Zenon DEF find_field_references
  <1>4. refs = Using(entries, shell[p].schema, shell[p].field)
    BY Zenon DEF find_field_references, Using
  <1>. HIDE DEF refs
  <1>5. found \in Commands /\ SameAsk(found, shell[p])
    BY Zenon, <1>2, <1>3, RefsMove
  <1>. HIDE DEF found
  <1>6. "retiring" \in CatalogPcs /\ "removing" \in CatalogPcs
    BY Zenon DEF CatalogPcs
  <1>7. /\ retire \in Commands /\ retire.pc = "retiring" /\ SameAsk(retire, found)
        /\ remove \in Commands /\ remove.pc = "removing" /\ SameAsk(remove, found)
    BY Zenon, <1>5, <1>6, PcMoves
  <1>. HIDE DEF retire, remove
  <1>8. shell[p].schema \in Schema /\ shell[p].field \in Field /\ Has(shell[p].doc, shell[p].schema)
    BY Zenon, <1>1, <1>2 DEF CommandFits
  <1>9. UNCHANGED <<file, backup, entries>> /\ catalogRuns' \in 0 .. MaxCatalogCommands
    BY Zenon, <1>1, <1>2
  <1>10. CASE Becomes(p, AtRest)
    BY Zenon, <1>1, <1>10, CommandEnds
  <1>11. CASE shell[p].force /\ Becomes(p, retire)
    <2>1. CommandFits(retire, file.kind, backup, entries)
      BY Zenon, <1>5, <1>7, <1>8, <1>11 DEF CommandFits, SameAsk
    <2>. QED BY Zenon, <1>7, <1>9, <1>11, <2>1, CommandMoves
  <1>12. CASE (refs = {} \/ shell[p].force) /\ Becomes(p, remove)
    <2>1. remove.force \/ Using(entries, remove.schema, remove.field) = {}
      BY Zenon, <1>4, <1>5, <1>7, <1>12 DEF SameAsk
    <2>2. remove.schema \in Schema /\ remove.field \in Field /\ Has(remove.doc, remove.schema)
      BY Zenon, <1>5, <1>7, <1>8 DEF SameAsk
    <2>3. CommandFits(remove, file.kind, backup, entries)
      BY Zenon, <1>7, <2>1, <2>2 DEF CommandFits
    <2>. QED BY Zenon, <1>7, <1>9, <1>12, <2>3, CommandMoves
  <1>. QED BY Zenon, <1>1, <1>10, <1>11, <1>12

LEMMA RetireReadsKeeps ==
    ASSUME CatInv, NEW p \in Shell, RetireReads(p)
    PROVE  CatInv' /\ CatalogAdds
  <1>. DEFINE at == [shell[p] EXCEPT !.pc = "rewriting"]
  <1>1. PICK x \in shell[p].refs : Becomes(p, [[at EXCEPT !.entry = x] EXCEPT !.meta = entries[x]])
    BY Zenon DEF RetireReads
  <1>. DEFINE rec == [[at EXCEPT !.entry = x] EXCEPT !.meta = entries[x]]
  <1>2. UNCHANGED <<file, backup, entries, catalogRuns>> /\ shell[p].pc = "retiring"
    BY Zenon DEF RetireReads, ShellAt
  <1>3. shell[p] \in Commands /\ CommandFits(shell[p], file.kind, backup, entries)
        /\ catalogRuns \in 0 .. MaxCatalogCommands /\ entries \in [Entry -> Entries]
    BY Zenon, SharedFacts
  <1>4. x \in Entry /\ entries[x] \in Entries
    BY Zenon, <1>1, <1>3, CommandTypes
  <1>5. "rewriting" \in CatalogPcs
    BY Zenon DEF CatalogPcs
  <1>6. at \in Commands /\ at.pc = "rewriting" /\ SameAsk(at, shell[p])
    BY Zenon, <1>3, <1>5, PcMoves
  <1>. HIDE DEF at
  <1>7. rec \in Commands /\ rec.pc = at.pc /\ rec.entry = x /\ SameAsk(rec, at)
    <2>. DEFINE meta == entries[x]
    <2>1. meta \in Entries
      BY Zenon, <1>4
    <2>2. rec = [[at EXCEPT !.entry = x] EXCEPT !.meta = meta]
      BY Zenon
    <2>. HIDE DEF meta, rec
    <2>. QED BY Zenon, <1>4, <1>6, <2>1, <2>2 DEF Commands, SameAsk
  <1>8. Becomes(p, rec)
    BY Zenon, <1>1
  <1>. HIDE DEF rec
  <1>9. rec.schema = shell[p].schema /\ rec.field = shell[p].field /\ rec.doc = shell[p].doc
        /\ rec.force = shell[p].force
    BY Zenon, <1>6, <1>7 DEF SameAsk
  <1>10. CommandFits(rec, file.kind, backup, entries)
    BY Zenon, <1>2, <1>3, <1>4, <1>6, <1>7, <1>9 DEF CommandFits
  <1>11. UNCHANGED <<file, backup, entries>> /\ catalogRuns' \in 0 .. MaxCatalogCommands
    BY Zenon, <1>2, <1>3
  <1>. QED BY Zenon, <1>7, <1>8, <1>10, <1>11, CommandMoves

LEMMA RetireWritesKeeps ==
    ASSUME CatInv, NEW p \in Shell, RetireWrites(p)
    PROVE  CatInv' /\ CatalogAdds
  <1>. DEFINE x == shell[p].entry
              refs == shell[p].refs \ {x}
              meta == [shell[p].meta EXCEPT !.custom = [@ EXCEPT ![shell[p].field] = "undefined"]]
              less == [shell[p] EXCEPT !.refs = refs]
              stage == IF refs = {} THEN "removing" ELSE "retiring"
              rec == [less EXCEPT !.pc = stage]
  <1>1. /\ WriteEntry(p, x, meta, rec) /\ UNCHANGED <<file, backup, catalogRuns>>
        /\ shell[p].pc = "rewriting"
    BY Zenon DEF RetireWrites, ShellAt
  <1>2. shell[p] \in Commands /\ CommandFits(shell[p], file.kind, backup, entries)
    BY Zenon, SharedFacts
  <1>3. /\ shell[p].schema \in Schema /\ shell[p].field \in Field /\ Has(shell[p].doc, shell[p].schema)
        /\ shell[p].force /\ x \in Entry
    BY Zenon, <1>1, <1>2 DEF CommandFits
  <1>4. shell[p].meta \in Entries /\ shell[p].refs \subseteq Entry
    BY Zenon, <1>2, CommandTypes
  <1>5. meta \in Entries
    BY Zenon, <1>4 DEF Entries
  <1>6. refs \in SUBSET Entry
    BY Zenon, <1>4
  <1>7. stage \in CatalogPcs /\ stage \in {"removing", "retiring"}
    BY Zenon DEF CatalogPcs
  <1>. HIDE DEF x, refs, meta, stage
  <1>8. less \in Commands /\ SameAsk(less, shell[p])
    BY Zenon, <1>2, <1>6, RefsMove
  <1>. HIDE DEF less
  <1>9. rec \in Commands /\ rec.pc = stage /\ SameAsk(rec, less)
    BY Zenon, <1>7, <1>8, PcMoves
  <1>. HIDE DEF rec
  <1>10. rec.schema \in Schema /\ rec.field \in Field /\ Has(rec.doc, rec.schema) /\ rec.force
    BY Zenon, <1>3, <1>8, <1>9 DEF SameAsk
  <1>11. rec.pc \in {"removing", "retiring"}
    BY Zenon, <1>7, <1>9
  <1>. QED BY Zenon, <1>1, <1>3, <1>5, <1>9, <1>10, <1>11, SecretWritten

LEMMA FieldRemoveSavesKeeps ==
    ASSUME CatInv, NEW p \in Shell, FieldRemoveSaves(p)
    PROVE  CatInv' /\ CatalogAdds
  <1>. DEFINE doc == shell[p].doc
              s == shell[p].schema
              f == shell[p].field
              less == [doc.schemas[s] EXCEPT !.fields = [@ EXCEPT ![f] = NoSpec]]
              new == remove_field_from_descriptor(doc, s, f)
  <1>1. /\ Becomes(p, AtRest) /\ UNCHANGED <<backup, entries, catalogRuns>>
        /\ UNCHANGED file \/ WriteCatalog(new)
        /\ shell[p].pc = "removing"
    BY Zenon DEF FieldRemoveSaves, ShellAt
  <1>2. shell[p] \in Commands /\ CommandFits(shell[p], file.kind, backup, entries)
    BY Zenon, SharedFacts
  <1>3. s \in Schema /\ f \in Field
    BY Zenon, <1>1, <1>2 DEF CommandFits
  <1>4. doc \in Documents
    BY Zenon, <1>2, CommandTypes
  <1>5. new = WithSchema(doc, s, bump_schema_version(less))
    BY Zenon DEF remove_field_from_descriptor
  <1>. HIDE DEF doc, s, f, new
  <1>6. doc.schemas[s] \in Descriptor
    BY Zenon, <1>3, <1>4, DocumentTypes
  <1>7. less \in Descriptor
    BY Zenon, <1>6 DEF Descriptor
  <1>. HIDE DEF less
  <1>8. bump_schema_version(less) \in Descriptor /\ bump_schema_version(less).version > 0
    BY Zenon, <1>7, BumpTypes
  <1>9. new \in Documents
    BY Zenon, <1>3, <1>4, <1>5, <1>8, SchemaReplaced
  <1>10. ~ShellAt(p, "merging")
    BY Zenon, <1>1 DEF ShellAt
  <1>11. CASE UNCHANGED file
    <2>1. UNCHANGED <<file, backup, entries, catalogRuns>>
      BY Zenon, <1>1, <1>11
    <2>. QED BY Zenon, <1>1, <2>1, CommandEnds
  <1>12. CASE WriteCatalog(new)
    BY Zenon, <1>1, <1>9, <1>10, <1>12, CommandSaves
  <1>. QED BY Zenon, <1>1, <1>11, <1>12

LEMMA DeprecateLoadsKeeps ==
    ASSUME CatInv, NEW p \in Shell, DeprecateLoads(p)
    PROVE  CatInv' /\ CatalogAdds
  <1>1. PICK s \in Schema : Has(file.doc, s) /\ Becomes(p, LoadedFor("deprecate", "deprecating", s))
    BY Zenon DEF DeprecateLoads
  <1>. DEFINE rec == LoadedFor("deprecate", "deprecating", s)
  <1>2. UNCHANGED <<file, backup, entries>> /\ catalogRuns' \in 0 .. MaxCatalogCommands
    BY Zenon, CommandCounts DEF DeprecateLoads
  <1>3. "deprecate" \in CatalogOps /\ "deprecating" \in CatalogPcs /\ file.doc \in Documents
    BY Zenon, SharedFacts DEF CatalogOps, CatalogPcs
  <1>4. rec \in Commands /\ rec.pc = "deprecating" /\ rec.doc = file.doc /\ rec.schema = s
    BY SMTT(30), <1>3, LoadedTypes
  <1>5. Becomes(p, rec)
    BY Zenon, <1>1
  <1>. HIDE DEF rec
  <1>6. CommandFits(rec, file.kind, backup, entries)
    BY Zenon, <1>1, <1>4 DEF CommandFits
  <1>. QED BY Zenon, <1>2, <1>4, <1>5, <1>6, CommandMoves

LEMMA DeprecateSavesKeeps ==
    ASSUME CatInv, NEW p \in Shell, DeprecateSaves(p)
    PROVE  CatInv' /\ CatalogAdds
  <1>. DEFINE doc == shell[p].doc
              s == shell[p].schema
              new == [WithSchema(doc, s, bump_schema_version(doc.schemas[s])) EXCEPT !.deprecated = @ \cup {s}]
  <1>1. /\ Becomes(p, AtRest) /\ UNCHANGED <<backup, entries, catalogRuns>>
        /\ WriteCatalog(new) /\ shell[p].pc = "deprecating"
    BY Zenon DEF DeprecateSaves, ShellAt
  <1>2. shell[p] \in Commands /\ CommandFits(shell[p], file.kind, backup, entries)
    BY Zenon, SharedFacts
  <1>3. s \in Schema
    BY Zenon, <1>1, <1>2 DEF CommandFits
  <1>4. doc \in Documents
    BY Zenon, <1>2, CommandTypes
  <1>. HIDE DEF doc, s
  <1>5. doc.schemas[s] \in Descriptor
    BY Zenon, <1>3, <1>4, DocumentTypes
  <1>6. bump_schema_version(doc.schemas[s]) \in Descriptor /\ bump_schema_version(doc.schemas[s]).version > 0
    BY Zenon, <1>5, BumpTypes
  <1>7. new \in Documents
    BY Zenon, <1>3, <1>4, <1>6, SchemaReplaced
  <1>. HIDE DEF new
  <1>8. ~ShellAt(p, "merging")
    BY Zenon, <1>1 DEF ShellAt
  <1>. QED BY Zenon, <1>1, <1>7, <1>8, CommandSaves

LEMMA SchemaRemoveLoadsKeeps ==
    ASSUME CatInv, NEW p \in Shell, SchemaRemoveLoads(p)
    PROVE  CatInv' /\ CatalogAdds
  <1>1. PICK s \in Schema, force \in BOOLEAN :
            Becomes(p, [LoadedFor("remove", "finding", s) EXCEPT !.force = force])
    BY Zenon DEF SchemaRemoveLoads
  <1>. DEFINE c == LoadedFor("remove", "finding", s)
              rec == [c EXCEPT !.force = force]
  <1>2. UNCHANGED <<file, backup, entries>> /\ catalogRuns' \in 0 .. MaxCatalogCommands
    BY Zenon, CommandCounts DEF SchemaRemoveLoads
  <1>3. "remove" \in CatalogOps /\ "finding" \in CatalogPcs /\ file.doc \in Documents
    BY Zenon, SharedFacts DEF CatalogOps, CatalogPcs
  <1>4. c \in Commands /\ c.pc = "finding" /\ c.schema = s
    BY SMTT(30), <1>3, LoadedTypes
  <1>. HIDE DEF c
  <1>5. rec \in Commands /\ rec.pc = "finding" /\ rec.schema = s
    BY Zenon, <1>4 DEF Commands
  <1>6. Becomes(p, rec)
    BY Zenon, <1>1 DEF c
  <1>. HIDE DEF rec
  <1>7. CommandFits(rec, file.kind, backup, entries)
    BY Zenon, <1>5 DEF CommandFits
  <1>. QED BY Zenon, <1>2, <1>5, <1>6, <1>7, CommandMoves

LEMMA SchemaRemoveScansKeeps ==
    ASSUME CatInv, NEW p \in Shell, SchemaRemoveScans(p)
    PROVE  CatInv' /\ CatalogAdds
  <1>. DEFINE users == find_schema_id_references(shell[p].schema)
              at == [shell[p] EXCEPT !.pc = "dropping"]
              rec == [at EXCEPT !.refs = users]
  <1>1. /\ \/ Becomes(p, AtRest)
           \/ (users = {} \/ shell[p].force) /\ Becomes(p, rec)
        /\ UNCHANGED <<file, backup, entries, catalogRuns>> /\ shell[p].pc = "finding"
    BY Zenon DEF SchemaRemoveScans, ShellAt
  <1>2. shell[p] \in Commands /\ CommandFits(shell[p], file.kind, backup, entries)
        /\ catalogRuns \in 0 .. MaxCatalogCommands
    BY Zenon, SharedFacts
  <1>3. users \in SUBSET Entry
    BY Zenon DEF find_schema_id_references
  <1>4. users = Naming(entries, shell[p].schema)
    BY Zenon DEF find_schema_id_references, Naming
  <1>. HIDE DEF users
  <1>5. "dropping" \in CatalogPcs
    BY Zenon DEF CatalogPcs
  <1>6. at \in Commands /\ at.pc = "dropping" /\ SameAsk(at, shell[p])
    BY Zenon, <1>2, <1>5, PcMoves
  <1>. HIDE DEF at
  <1>7. rec \in Commands /\ rec.pc = at.pc /\ SameAsk(rec, at)
    BY Zenon, <1>3, <1>6, RefsMove
  <1>. HIDE DEF rec
  <1>8. rec.schema = shell[p].schema /\ rec.force = shell[p].force
    BY Zenon, <1>6, <1>7 DEF SameAsk
  <1>9. shell[p].schema \in Schema
    BY Zenon, <1>1, <1>2 DEF CommandFits
  <1>10. UNCHANGED <<file, backup, entries>> /\ catalogRuns' \in 0 .. MaxCatalogCommands
    BY Zenon, <1>1, <1>2
  <1>11. CASE Becomes(p, AtRest)
    BY Zenon, <1>1, <1>11, CommandEnds
  <1>12. CASE (users = {} \/ shell[p].force) /\ Becomes(p, rec)
    <2>1. rec.force \/ Naming(entries, rec.schema) = {}
      BY Zenon, <1>4, <1>8, <1>12
    <2>2. CommandFits(rec, file.kind, backup, entries)
      BY Zenon, <1>6, <1>7, <1>8, <1>9, <2>1 DEF CommandFits
    <2>. QED BY Zenon, <1>7, <1>10, <1>12, <2>2, CommandMoves
  <1>. QED BY Zenon, <1>1, <1>11, <1>12

LEMMA SchemaRemoveSavesKeeps ==
    ASSUME CatInv, NEW p \in Shell, SchemaRemoveSaves(p)
    PROVE  CatInv' /\ CatalogAdds
  <1>. DEFINE doc == shell[p].doc
              s == shell[p].schema
              new == [WithSchema(doc, s, NoDescriptor) EXCEPT !.deprecated = @ \ {s}]
  <1>1. /\ Becomes(p, AtRest) /\ UNCHANGED <<backup, entries, catalogRuns>>
        /\ WriteCatalog(new) /\ shell[p].pc = "dropping"
    BY Zenon DEF SchemaRemoveSaves, ShellAt
  <1>2. shell[p] \in Commands /\ CommandFits(shell[p], file.kind, backup, entries)
    BY Zenon, SharedFacts
  <1>3. s \in Schema
    BY Zenon, <1>1, <1>2 DEF CommandFits
  <1>4. doc \in Documents
    BY Zenon, <1>2, CommandTypes
  <1>. HIDE DEF doc, s
  <1>5. new \in Documents
    BY Zenon, <1>3, <1>4, AbsentTypes, SchemaReplaced
  <1>. HIDE DEF new
  <1>6. ~ShellAt(p, "merging")
    BY Zenon, <1>1 DEF ShellAt
  <1>. QED BY Zenon, <1>1, <1>5, <1>6, CommandSaves

---------------------------------------------------------------------------
(* set.                                                                     *)

LEMMA SetReadsKeeps ==
    ASSUME CatInv, NEW p \in Shell, SetReads(p)
    PROVE  CatInv' /\ CatalogAdds
  <1>. DEFINE asked == Begun("set", "resolving")
  <1>1. PICK x \in Entry : Becomes(p, [[asked EXCEPT !.entry = x] EXCEPT !.meta = entries[x]])
    BY Zenon DEF SetReads
  <1>. DEFINE meta == entries[x]
              rec == [[asked EXCEPT !.entry = x] EXCEPT !.meta = meta]
  <1>2. UNCHANGED <<file, backup, entries>> /\ catalogRuns' \in 0 .. MaxCatalogCommands
    BY Zenon, CommandCounts DEF SetReads
  <1>3. "set" \in CatalogOps /\ "resolving" \in CatalogPcs
    BY Zenon DEF CatalogOps, CatalogPcs
  <1>4. meta \in Entries
    BY Zenon, SharedFacts
  <1>5. asked \in Commands /\ asked.pc = "resolving"
    BY Zenon, <1>3, BegunTypes
  <1>6. Becomes(p, rec)
    BY Zenon, <1>1
  <1>. HIDE DEF asked, meta
  <1>7. rec \in Commands /\ rec.pc = "resolving" /\ rec.entry = x
    BY Zenon, <1>4, <1>5 DEF Commands
  <1>. HIDE DEF rec
  <1>8. CommandFits(rec, file.kind, backup, entries)
    BY Zenon, <1>7 DEF CommandFits
  <1>. QED BY Zenon, <1>2, <1>6, <1>7, <1>8, CommandMoves

LEMMA SetResolvesKeeps ==
    ASSUME CatInv, NEW p \in Shell, SetResolves(p)
    PROVE  CatInv' /\ CatalogAdds
  <1>. DEFINE at == [shell[p] EXCEPT !.pc = "setting"]
              asked(s, given) == Defaulted(Merged(shell[p].meta, s, given), file.doc.schemas[s])
  <1>1. /\ \/ Becomes(p, AtRest)
           \/ \E s \in Schema, given \in SUBSET Field : Becomes(p, [at EXCEPT !.meta = asked(s, given)])
        /\ UNCHANGED <<file, backup, entries, catalogRuns>> /\ shell[p].pc = "resolving"
    BY Zenon DEF SetResolves, ShellAt
  <1>2. shell[p] \in Commands /\ CommandFits(shell[p], file.kind, backup, entries)
        /\ catalogRuns \in 0 .. MaxCatalogCommands
    BY Zenon, SharedFacts
  <1>3. "setting" \in CatalogPcs
    BY Zenon DEF CatalogPcs
  <1>4. at \in Commands /\ at.pc = "setting" /\ at.entry = shell[p].entry
    BY Zenon, <1>2, <1>3, PcMoves
  <1>. HIDE DEF at
  <1>5. CASE Becomes(p, AtRest)
    BY Zenon, <1>1, <1>5, CommandEnds
  <1>6. ASSUME NEW s \in Schema, NEW given \in SUBSET Field, Becomes(p, [at EXCEPT !.meta = asked(s, given)])
        PROVE  CatInv' /\ CatalogAdds
    <2>. DEFINE meta == asked(s, given)
                rec == [at EXCEPT !.meta = meta]
    <2>1. shell[p].meta \in Entries
      BY Zenon, <1>2, CommandTypes
    <2>2. Merged(shell[p].meta, s, given) \in Entries
      BY Zenon, <2>1 DEF Merged, Entries
    <2>3. meta \in Entries
      BY Zenon, <2>2 DEF Defaulted, Entries
    <2>4. Becomes(p, rec)
      BY Zenon, <1>6
    <2>. HIDE DEF meta
    <2>5. rec \in Commands /\ rec.pc = at.pc /\ rec.entry = at.entry
      BY Zenon, <1>4, <2>3, MetaMoves
    <2>. HIDE DEF rec
    <2>6. shell[p].entry \in Entry
      BY Zenon, <1>1, <1>2 DEF CommandFits
    <2>7. CommandFits(rec, file.kind, backup, entries)
      BY Zenon, <1>4, <2>5, <2>6 DEF CommandFits
    <2>8. UNCHANGED <<file, backup, entries>> /\ catalogRuns' \in 0 .. MaxCatalogCommands
      BY Zenon, <1>1, <1>2
    <2>. QED BY Zenon, <2>4, <2>5, <2>7, <2>8, CommandMoves
  <1>. QED BY Zenon, <1>1, <1>5, <1>6

LEMMA SetWritesKeeps ==
    ASSUME CatInv, NEW p \in Shell, SetWrites(p)
    PROVE  CatInv' /\ CatalogAdds
  <1>1. /\ WriteEntry(p, shell[p].entry, shell[p].meta, AtRest) /\ UNCHANGED <<file, backup, catalogRuns>>
        /\ shell[p].pc = "setting"
    BY Zenon DEF SetWrites, ShellAt
  <1>2. shell[p] \in Commands /\ CommandFits(shell[p], file.kind, backup, entries)
    BY Zenon, SharedFacts
  <1>3. shell[p].entry \in Entry
    BY Zenon, <1>1, <1>2 DEF CommandFits
  <1>4. shell[p].meta \in Entries
    BY Zenon, <1>2, CommandTypes
  <1>. QED BY Zenon, <1>1, <1>3, <1>4, PcsDiffer, RestTypes, SecretWritten

---------------------------------------------------------------------------
(* The catalog.                                                             *)

LEMMA CatalogStarts == CatalogInit => CatInv
  <1>. SUFFICES ASSUME CatalogInit PROVE CatInv
    BY Zenon
  <1>1. entries = [x \in Entry |-> NoEntry] /\ shell = [p \in Shell |-> AtRest] /\ backup = "absent"
        /\ catalogRuns = 0 /\ file \in [kind : FirstFiles, doc : {EmptyDocument}]
    BY Zenon DEF CatalogInit
  <1>2. entries \in [Entry -> Entries]
    BY Zenon, <1>1, AbsentTypes
  <1>3. shell \in [Shell -> Commands] /\ \A p \in Shell : shell[p] = AtRest
    BY Zenon, <1>1, RestTypes
  <1>4. file \in [kind : Kinds, doc : Documents]
    BY Zenon, <1>1, AbsentTypes, CatalogAssumption
  <1>5. catalogRuns \in 0 .. MaxCatalogCommands
    BY <1>1, CatalogAssumption
  <1>6. CatalogShared
    BY Zenon, <1>1, <1>2, <1>4, <1>5 DEF CatalogShared
  <1>7. CommandFits(AtRest, file.kind, backup, entries)
    BY Zenon, PcsDiffer DEF CommandFits
  <1>. QED BY Zenon, <1>3, <1>6, <1>7 DEF CatInv

LEMMA CatalogSteps ==
    ASSUME CatInv, [CatalogNext]_catalogVars
    PROVE  CatInv' /\ CatalogAdds
  <1>1. ASSUME NEW p \in Shell, CatalogStep(p) PROVE CatInv' /\ CatalogAdds
    BY ZenonT(30), <1>1, InitLooksKeeps, ChecksBackupKeeps, CopiesInventoryKeeps, CleansInventoryKeeps,
       CreatesStorageKeeps, InitSeedsKeeps, InstallStartsKeeps, BootstrapsKeeps, MergeSavesKeeps,
       FieldRemoveLoadsKeeps, FieldRemoveScansKeeps, RetireReadsKeeps, RetireWritesKeeps,
       FieldRemoveSavesKeeps, DeprecateLoadsKeeps, DeprecateSavesKeeps, SchemaRemoveLoadsKeeps,
       SchemaRemoveScansKeeps, SchemaRemoveSavesKeeps, SetReadsKeeps, SetResolvesKeeps, SetWritesKeeps
    DEF CatalogStep
  <1>2. CASE UNCHANGED catalogVars
    BY Zenon, <1>2 DEF catalogVars, CatInv, CatalogShared, CatalogAdds, MergeAdds
  <1>. QED BY Zenon, <1>1, <1>2 DEF CatalogNext

\* What a shell is about to remove or clean it may.
LEMMA ShellsAreCareful ==
    ASSUME CatInv, NEW p \in Shell
    PROVE  /\ ShellAt(p, "cleaning") /\ file.kind = "inventory" => backup = "inventory"
           /\ ShellAt(p, "removing") /\ ~shell[p].force =>
                 find_field_references(shell[p].schema, shell[p].field) \subseteq shell[p].late
           /\ ShellAt(p, "dropping") /\ ~shell[p].force =>
                 {x \in Entry : entries[x].schema = shell[p].schema} \subseteq shell[p].late
  <1>1. CommandFits(shell[p], file.kind, backup, entries)
    BY Zenon, SharedFacts
  <1>2. ShellAt(p, "cleaning") /\ file.kind = "inventory" => backup = "inventory"
    BY Zenon, <1>1 DEF CommandFits, ShellAt, CatInv, CatalogShared
  <1>3. ShellAt(p, "removing") /\ ~shell[p].force =>
            find_field_references(shell[p].schema, shell[p].field) \subseteq shell[p].late
    BY Zenon, <1>1 DEF CommandFits, ShellAt, find_field_references, Using
  <1>4. ShellAt(p, "dropping") /\ ~shell[p].force =>
            {x \in Entry : entries[x].schema = shell[p].schema} \subseteq shell[p].late
    BY Zenon, <1>1 DEF CommandFits, ShellAt, Naming
  <1>. QED BY Zenon, <1>2, <1>3, <1>4

\* The inductive invariant: every shell holds a document that parses, whoever is
\* about to clean an inventory finds its backup made, and whoever is about to
\* remove something unforced has found it unused but for secrets written since.
THEOREM CatalogInvariance == CatalogSpec => []CatInv
  <1>1. CatInv /\ [CatalogNext]_catalogVars => CatInv'
    BY Zenon, CatalogSteps
  <1>. QED BY PTL, CatalogStarts, <1>1 DEF CatalogSpec

\* registry.json always reads back: what the file holds parses, whichever
\* commands rewrote it.
THEOREM CatalogTypeCorrect == CatalogSpec => []CatalogTypeOK
  <1>1. CatInv => CatalogTypeOK
    <2>. SUFFICES ASSUME CatInv PROVE CatalogTypeOK
      BY Zenon
    <2>1. file \in [kind : Kinds, doc : Documents] /\ file.doc \in Documents
      BY Zenon DEF CatInv, CatalogShared
    <2>2. file.doc \in Document /\ Parses(file.doc)
      BY Zenon, <2>1, DocumentTypes
    <2>3. file \in [kind : Kinds, doc : Document]
      BY Zenon, <2>1, <2>2
    <2>. QED BY Zenon, <2>2, <2>3 DEF CatInv, CatalogShared, CatalogTypeOK, Parses
  <1>. QED BY PTL, CatalogInvariance, <1>1

\* The catalog loses nothing it should keep, for any number of shells working at
\* once without a lock: the cleaned inventory is in the backup file, an install
\* without --replace only adds, and an unforced removal takes away nothing that
\* was in use when it scanned.
THEOREM CatalogKeepsWhatItShould == CatalogSpec => CatalogLosesNothing
  <1>. DEFINE Kept(p) ==
          /\ ShellAt(p, "cleaning") /\ shell'[p] # shell[p] /\ file.kind = "inventory"
               => backup = "inventory"
          /\ ShellAt(p, "merging") /\ shell'[p] # shell[p] /\ file' # file /\ ~shell[p].force
               => \A s \in Schema :
                    LET old == shell[p].doc.schemas[s]
                        new == file'.doc.schemas[s]
                    IN  /\ \A f \in Field : old.fields[f] # NoSpec => new.fields[f] = old.fields[f]
                        /\ old.version > 0 /\ new # old => new.version > old.version
                        /\ file'.doc.deprecated = shell[p].doc.deprecated
          /\ shell'[p] # shell[p] /\ file' # file /\ ~shell[p].force =>
               /\ ShellAt(p, "removing") =>
                     find_field_references(shell[p].schema, shell[p].field) \subseteq shell[p].late
               /\ ShellAt(p, "dropping") =>
                     {x \in Entry : entries[x].schema = shell[p].schema}
                        \subseteq shell[p].late
  <1>1. CatInv /\ [CatalogNext]_catalogVars => [\A p \in Shell : Kept(p)]_catalogVars
    <2>. SUFFICES ASSUME CatInv, [CatalogNext]_catalogVars, NEW p \in Shell PROVE Kept(p)
      BY Zenon
    <2>1. MergeAdds(p)
      BY Zenon, CatalogSteps DEF CatalogAdds
    <2>2. ShellAt(p, "merging") /\ shell'[p] # shell[p] /\ file' # file /\ ~shell[p].force =>
              Adds(shell[p].doc, file'.doc)
      BY Zenon, <2>1 DEF MergeAdds
    <2>. QED BY Zenon, <2>2, ShellsAreCareful DEF Adds
  <1>. QED BY PTL, CatalogInvariance, <1>1 DEF CatalogSpec, CatalogLosesNothing

---------------------------------------------------------------------------
(***************************************************************************)
(* Proofs about InboundEnvelopes, for every set of peers, runtimes and     *)
(* transactions and every choice of storage modes and grants.              *)
(***************************************************************************)

(***************************************************************************)
(* The log changes in two ways.                                            *)
(***************************************************************************)

\* One new row is appended: an inbound transaction that is permitted now, or
\* a local delete.
OneRow(t, payload) ==
    /\ ~Retained(t)
    /\ Storable(t, payload)
    /\ log' = Append(log, [tx |-> t, payload |-> payload])
    /\ \/ t \in Remote /\ Permitted(Origin[t], t)
       \/ Origin[t] = Self /\ Kind[t] = "secret.delete"

\* A local secret.set is appended with its vocabulary.
TwoRows(t) == ~Retained(t) /\ log' = SetRows(t)

LogMayChange ==
    \/ log' = log
    \/ \E t \in Transactions, payload \in Payloads : OneRow(t, payload)
    \/ \E t \in LocalSets : TwoRows(t)

(***************************************************************************)
(* The inductive invariant.                                                *)
(***************************************************************************)

\* What a runtime has achieved at each label: at the commit it has a payload,
\* and after a successful commit the log has its transaction.
Progress ==
    \A r \in Runtimes :
       /\ pc[r] = "apply" => copy[r] # None
       /\ pc[r] = "applied" => Retained(env[r])

\* A vocabulary row of a local set is in the log only if the set is: this is
\* why the two fresh rows of a set are both fresh.
WrittenTogether == \A t \in LocalSets : Retained(Vocabulary[t]) => Retained(t)

LogInv ==
    /\ AppliedOnce
    /\ OneStorageForm
    /\ AuthorizationAvailable
    /\ WrittenTogether

IInv ==
    /\ TypeOK
    /\ Progress
    /\ LogInv
    /\ DeliveredIsRetained
    /\ OnlyOwnForwarded
-----------------------------------------------------------------------------
\* Appending one row: its length and its rows.
LEMMA AppendRow ==
    ASSUME NEW S, NEW s \in Seq(S), NEW e \in S
    PROVE  /\ Append(s, e) \in Seq(S)
           /\ Len(Append(s, e)) = Len(s) + 1
           /\ DOMAIN s = 1 .. Len(s) /\ Len(s) \in Nat
           /\ DOMAIN Append(s, e) = 1 .. Len(s) + 1
           /\ \A i \in 1 .. Len(s) : Append(s, e)[i] = s[i]
           /\ Append(s, e)[Len(s) + 1] = e
  OBVIOUS

\* Both kinds of growth keep the rows and add new ones at the end.
GrownByOne(t, payload) ==
    /\ log' \in Seq(Rows)
    /\ Len(log) \in Nat /\ DOMAIN log = 1 .. Len(log)
    /\ DOMAIN log' = 1 .. Len(log) + 1
    /\ \A i \in 1 .. Len(log) : log'[i] = log[i]
    /\ log'[Len(log) + 1] = [tx |-> t, payload |-> payload]

GrownByTwo(t) ==
    /\ log' \in Seq(Rows)
    /\ Len(log) \in Nat /\ DOMAIN log = 1 .. Len(log)
    /\ DOMAIN log' = 1 .. Len(log) + 2
    /\ \A i \in 1 .. Len(log) : log'[i] = log[i]
    /\ log'[Len(log) + 1] = [tx |-> Vocabulary[t], payload |-> "plain"]
    /\ log'[Len(log) + 2] = [tx |-> t, payload |-> OwnPayload]

\* A single new row, from submit_transaction.
LEMMA OneRowLog ==
    ASSUME TypeOK, NEW t \in Transactions, NEW payload \in Payloads, OneRow(t, payload)
    PROVE  GrownByOne(t, payload)
  <1> DEFINE row == [tx |-> t, payload |-> payload]
  <1>1. row \in Rows /\ log \in Seq(Rows) /\ log' = Append(log, row)
    BY Zenon DEF Rows, TypeOK, OneRow
  <1> HIDE DEF row
  <1>2. /\ log' \in Seq(Rows)
        /\ Len(log) \in Nat /\ DOMAIN log = 1 .. Len(log)
        /\ DOMAIN log' = 1 .. Len(log) + 1
        /\ \A i \in 1 .. Len(log) : log'[i] = log[i]
        /\ log'[Len(log) + 1] = row
    BY <1>1, AppendRow
  <1> QED
    BY Zenon, <1>2 DEF row, GrownByOne

\* The two new rows of a local set.
LEMMA TwoRowsLog ==
    ASSUME TypeOK, NEW t \in LocalSets, TwoRows(t)
    PROVE  GrownByTwo(t)
  <1> DEFINE first == [tx |-> Vocabulary[t], payload |-> "plain"]
             second == [tx |-> t, payload |-> OwnPayload]
             mid == Append(log, first)
  <1>1. first \in Rows /\ second \in Rows /\ log \in Seq(Rows)
    BY InboundAssumption DEF Rows, TypeOK, LocalSets, Payloads, OwnPayload
  <1>2. log' = Append(mid, second)
    BY Zenon DEF TwoRows, SetRows
  <1> HIDE DEF first, second
  <1>3. /\ mid \in Seq(Rows) /\ Len(mid) = Len(log) + 1
        /\ Len(log) \in Nat /\ DOMAIN log = 1 .. Len(log)
        /\ DOMAIN mid = 1 .. Len(log) + 1
        /\ \A i \in 1 .. Len(log) : mid[i] = log[i]
        /\ mid[Len(log) + 1] = first
    BY <1>1, AppendRow
  <1> HIDE DEF mid
  <1>4. /\ log' \in Seq(Rows)
        /\ DOMAIN log' = 1 .. Len(mid) + 1
        /\ \A i \in 1 .. Len(mid) : log'[i] = mid[i]
        /\ log'[Len(mid) + 1] = second
    BY <1>1, <1>2, <1>3, AppendRow
  <1>5. /\ DOMAIN log' = 1 .. Len(log) + 2
        /\ \A i \in 1 .. Len(log) : log'[i] = log[i]
        /\ log'[Len(log) + 1] = first
        /\ log'[Len(log) + 2] = second
    BY <1>3, <1>4
  <1> QED
    BY Zenon, <1>3, <1>4, <1>5 DEF first, second, GrownByTwo

\* Every step changes the log in one of these ways.
LEMMA LogSteps ==
    ASSUME TypeOK, Progress, [Next]_vars
    PROVE  LogMayChange
  <1>1. ASSUME NEW r \in Runtimes, Apply(r)
        PROVE  LogMayChange
    <2>1. env[r] \in Remote /\ copy[r] \in Payloads
      BY ZenonT(30), <1>1 DEF Apply, TypeOK, Progress
    <2>2. CASE log' # log
      <3>1. Accepted(env[r], copy[r]) /\ SubmitRemote(env[r], copy[r])
        BY Zenon, <1>1, <2>2 DEF Apply
      <3>2. ~Retained(env[r]) /\ Commit(env[r], copy[r])
        BY Zenon, <3>1, <2>2 DEF SubmitRemote
      <3>3. OneRow(env[r], copy[r])
        BY Zenon, <2>1, <3>1, <3>2 DEF OneRow, Accepted, Commit
      <3> QED
        BY Zenon, <2>1, <3>3 DEF LogMayChange, Remote
    <2> QED
      BY Zenon, <2>2 DEF LogMayChange
  <1>2. ASSUME NEW r \in Runtimes, Verify(r) \/ Localize(r) \/ Answer(r) \/ Kill(r)
        PROVE  LogMayChange
    BY Zenon, <1>2 DEF Verify, Localize, Answer, Kill, LogMayChange
  <1>3. ASSUME NEW t \in LocalSets, Set(t) \/ ImportLocal(t)
        PROVE  LogMayChange
    BY Zenon, <1>3 DEF Set, ImportLocal, SetSecret, TwoRows, LogMayChange
  <1>4. ASSUME NEW t \in Transactions, Origin[t] = Self, Kind[t] = "secret.delete", Delete(t)
        PROVE  LogMayChange
    <2>1. OwnPayload \in Payloads /\ Storable(t, OwnPayload)
      BY SMTT(30), InboundAssumption DEF OwnPayload, Payloads, Storable
    <2>2. OneRow(t, OwnPayload)
      BY Zenon, <1>4, <2>1 DEF Delete, Commit, OneRow
    <2> QED
      BY Zenon, <2>1, <2>2 DEF LogMayChange
  <1>5. CASE \E r \in Runtimes, t \in Remote : Deliver(r, t)
    BY Zenon, <1>5 DEF Deliver, LogMayChange
  <1>6. CASE \E s \in Secrets : Authorize(s)
    BY Zenon, <1>6 DEF Authorize, LogMayChange
  <1>7. CASE \E p \in Peers : Accept(p) \/ Revoke(p)
    BY Zenon, <1>7 DEF Accept, Revoke, LogMayChange
  <1>8. CASE UNCHANGED vars
    BY Zenon, <1>8 DEF vars, LogMayChange
  <1> QED
    BY Zenon, <1>1, <1>2, <1>3, <1>4, <1>5, <1>6, <1>7, <1>8 DEF Next, RuntimeStep
-----------------------------------------------------------------------------
(***************************************************************************)
(* The invariants of the log.                                              *)
(***************************************************************************)

\* Rows are never lost.
LEMMA RetainedForever ==
    ASSUME TypeOK, LogMayChange, NEW u, Retained(u)
    PROVE  Retained(u)'
  <1>1. PICK i \in DOMAIN log : log[i].tx = u
    BY Zenon DEF Retained
  <1>2. CASE log' = log
    BY Zenon, <1>2 DEF Retained
  <1>3. ASSUME NEW t \in Transactions, NEW payload \in Payloads, OneRow(t, payload)
        PROVE  Retained(u)'
    <2> GrownByOne(t, payload)
      BY Zenon, <1>3, OneRowLog
    <2>1. i \in DOMAIN log' /\ log'[i] = log[i]
      BY <1>1 DEF GrownByOne
    <2> QED
      BY Zenon, <1>1, <2>1 DEF Retained
  <1>4. ASSUME NEW t \in LocalSets, TwoRows(t)
        PROVE  Retained(u)'
    <2> GrownByTwo(t)
      BY Zenon, <1>4, TwoRowsLog
    <2>1. i \in DOMAIN log' /\ log'[i] = log[i]
      BY <1>1 DEF GrownByTwo
    <2> QED
      BY Zenon, <1>1, <2>1 DEF Retained
  <1> QED
    BY Zenon, <1>2, <1>3, <1>4 DEF LogMayChange

\* The vocabulary row of a new local set is new as well.
LEMMA FreshVocabulary ==
    ASSUME WrittenTogether, NEW t \in LocalSets, TwoRows(t)
    PROVE  /\ ~Retained(t) /\ ~Retained(Vocabulary[t])
           /\ t \in Transactions /\ Vocabulary[t] \in Transactions
           /\ Origin[t] = Self /\ Kind[t] = "secret.set"
           /\ Origin[Vocabulary[t]] = Self /\ Kind[Vocabulary[t]] = "vocabulary"
           /\ Word[Vocabulary[t]] = Word[t]
  BY Zenon, InboundAssumption DEF WrittenTogether, TwoRows, LocalSets

\* An inbound transaction or a local delete keeps the invariants of the log.
LEMMA OneRowKeepsLogInv ==
    ASSUME TypeOK, LogInv,
           NEW t \in Transactions, NEW payload \in Payloads, OneRow(t, payload)
    PROVE  LogInv'
  <1> DEFINE n == Len(log)
  <1>0. GrownByOne(t, payload)
    BY Zenon, OneRowLog
  <1>1. /\ n \in Nat /\ DOMAIN log = 1 .. n /\ DOMAIN log' = 1 .. n + 1
        /\ \A i \in 1 .. n : log'[i] = log[i]
        /\ log'[n + 1].tx = t /\ log'[n + 1].payload = payload
    BY <1>0 DEF GrownByOne
  <1>2. \A i \in 1 .. n : log[i].tx # t
    BY Zenon, <1>1 DEF OneRow, Retained
  <1> HIDE DEF n
  <1>3. \A i \in DOMAIN log' : i \in 1 .. n \/ i = n + 1
    BY <1>1
  <1>4. AppliedOnce'
    BY Zenon, <1>1, <1>2, <1>3 DEF AppliedOnce, LogInv
  <1>5. OneStorageForm'
    BY <1>1, <1>3 DEF OneStorageForm, Storable, LogInv, OneRow, IsSecret
  <1>6. ~(Origin[t] = Self /\ Kind[t] = "secret.set")
    BY Zenon DEF OneRow, Remote
  <1>7. AuthorizationAvailable'
    <2> SUFFICES ASSUME NEW s \in Secrets, NEW i \in History(s)',
                        Origin[log'[i].tx] = Self, Kind[log'[i].tx] = "secret.set"
                 PROVE  Prerequisite(i)'
      BY Zenon DEF AuthorizationAvailable
    <2>1. i \in DOMAIN log' /\ IsSecret(log'[i].tx) /\ SecretOf[log'[i].tx] = s
      BY Zenon DEF History, IsSecret
    <2>2. i \in 1 .. n
      BY Zenon, <2>1, <1>1, <1>3, <1>6
    <2>3. i \in History(s) /\ log'[i] = log[i]
      BY Zenon, <2>1, <2>2, <1>1 DEF History
    <2>4. Prerequisite(i)
      BY Zenon, <2>3 DEF LogInv, AuthorizationAvailable
    <2>5. i - 1 \in 1 .. n
      BY <2>2, <2>4, <1>1 DEF Prerequisite
    <2> QED
      BY Zenon, <2>3, <2>4, <2>5, <1>1 DEF Prerequisite
  <1>8. \A u \in LocalSets : Vocabulary[u] # t
    BY Zenon, InboundAssumption DEF LocalSets, OneRow, Remote
  <1>9. WrittenTogether'
    <2> SUFFICES ASSUME NEW u \in LocalSets, Retained(Vocabulary[u])'
                 PROVE  Retained(u)'
      BY Zenon DEF WrittenTogether
    <2>1. PICK i \in DOMAIN log' : log'[i].tx = Vocabulary[u]
      BY Zenon DEF Retained
    <2>2. i \in 1 .. n
      BY Zenon, <2>1, <1>1, <1>3, <1>8
    <2>3. Retained(Vocabulary[u])
      BY Zenon, <2>1, <2>2, <1>1 DEF Retained
    <2>4. Retained(u)
      BY Zenon, <2>3 DEF LogInv, WrittenTogether
    <2>5. LogMayChange
      BY Zenon DEF LogMayChange
    <2> QED
      BY Zenon, <2>4, <2>5, RetainedForever
  <1> QED
    BY Zenon, <1>4, <1>5, <1>7, <1>9 DEF LogInv

\* A local set keeps the invariants of the log.
LEMMA TwoRowsKeepsLogInv ==
    ASSUME TypeOK, LogInv, NEW t \in LocalSets, TwoRows(t)
    PROVE  LogInv'
  <1> DEFINE n == Len(log)
             v == Vocabulary[t]
  <1>0. GrownByTwo(t)
    BY Zenon, TwoRowsLog
  <1>1. /\ n \in Nat /\ DOMAIN log = 1 .. n /\ DOMAIN log' = 1 .. n + 2
        /\ \A i \in 1 .. n : log'[i] = log[i]
        /\ log'[n + 1].tx = v /\ log'[n + 1].payload = "plain"
        /\ log'[n + 2].tx = t /\ log'[n + 2].payload = OwnPayload
    BY SMTT(30), <1>0 DEF GrownByTwo
  <1>2. /\ ~Retained(t) /\ ~Retained(v)
        /\ t \in Transactions /\ v \in Transactions
        /\ Origin[t] = Self /\ Kind[t] = "secret.set"
        /\ Origin[v] = Self /\ Kind[v] = "vocabulary"
        /\ Word[v] = Word[t]
    BY Zenon, FreshVocabulary DEF LogInv
  <1>3. LogMayChange
    BY Zenon DEF LogMayChange
  <1>4. \A u \in LocalSets : Vocabulary[u] \in {t, v} => u = t
    BY Zenon, <1>2, InboundAssumption DEF LocalSets
  <1> HIDE DEF n, v
  <1>5. \A i \in 1 .. n : log[i].tx # t /\ log[i].tx # v
    BY Zenon, <1>1, <1>2 DEF Retained
  <1>6. \A i \in DOMAIN log' : i \in 1 .. n \/ i = n + 1 \/ i = n + 2
    BY SMTT(30), <1>1
  <1>7. AppliedOnce'
    <2>1. t # v
      BY Zenon, <1>2
    <2> QED
      BY ZenonT(30), <1>1, <1>5, <1>6, <2>1 DEF AppliedOnce, LogInv
  <1>8. OneStorageForm'
    <2>1. Storable(v, "plain") /\ Storable(t, OwnPayload)
      BY Zenon, <1>2, InboundAssumption DEF Storable, IsSecret, OwnPayload
    <2> QED
      BY <1>1, <1>6, <2>1 DEF OneStorageForm, LogInv, Storable, IsSecret
  <1>9. AuthorizationAvailable'
    <2> SUFFICES ASSUME NEW s \in Secrets, NEW i \in History(s)',
                        Origin[log'[i].tx] = Self, Kind[log'[i].tx] = "secret.set"
                 PROVE  Prerequisite(i)'
      BY Zenon DEF AuthorizationAvailable
    <2>1. i \in DOMAIN log' /\ IsSecret(log'[i].tx) /\ SecretOf[log'[i].tx] = s
      BY Zenon DEF History, IsSecret
    <2>2. CASE i \in 1 .. n
      <3>1. i \in History(s) /\ log'[i] = log[i]
        BY Zenon, <2>1, <2>2, <1>1 DEF History
      <3>2. Prerequisite(i)
        BY Zenon, <3>1 DEF LogInv, AuthorizationAvailable
      <3>3. i - 1 \in 1 .. n
        BY <2>2, <3>2, <1>1 DEF Prerequisite
      <3> QED
        BY Zenon, <3>1, <3>2, <3>3, <1>1 DEF Prerequisite
    <2>3. CASE i = n + 1
      BY Zenon, <2>3, <1>1, <1>2
    <2>4. CASE i = n + 2
      BY <2>4, <1>1, <1>2 DEF Prerequisite
    <2> QED
      BY Zenon, <2>1, <2>2, <2>3, <2>4, <1>6
  <1>10. WrittenTogether'
    <2> SUFFICES ASSUME NEW u \in LocalSets, Retained(Vocabulary[u])'
                 PROVE  Retained(u)'
      BY Zenon DEF WrittenTogether
    <2>1. PICK i \in DOMAIN log' : log'[i].tx = Vocabulary[u]
      BY Zenon DEF Retained
    <2>2. CASE i \in 1 .. n
      <3>1. Retained(Vocabulary[u])
        BY Zenon, <2>1, <2>2, <1>1 DEF Retained
      <3>2. Retained(u)
        BY Zenon, <3>1 DEF LogInv, WrittenTogether
      <3> QED
        BY Zenon, <3>2, <1>3, RetainedForever
    <2>3. CASE i = n + 1 \/ i = n + 2
      <3>1. u = t
        BY Zenon, <2>1, <2>3, <1>1, <1>4
      <3>2. n + 2 \in DOMAIN log'
        BY <1>1
      <3> QED
        BY Zenon, <3>1, <3>2, <1>1 DEF Retained
    <2> QED
      BY Zenon, <2>2, <2>3, <1>6
  <1> QED
    BY Zenon, <1>7, <1>8, <1>9, <1>10 DEF LogInv

\* No step disturbs the invariants of the log.
LEMMA LogInvKept ==
    ASSUME TypeOK, LogInv, LogMayChange
    PROVE  LogInv'
  <1>1. CASE log' = log
    BY SMTT(60), <1>1 DEF LogInv, AppliedOnce, OneStorageForm, AuthorizationAvailable,
                WrittenTogether, History, Prerequisite, Retained, Storable
  <1> QED
    BY Zenon, <1>1, OneRowKeepsLogInv, TwoRowsKeepsLogInv DEF LogMayChange
-----------------------------------------------------------------------------
(***************************************************************************)
(* Types.                                                                  *)
(***************************************************************************)

\* An update keeps the type of a function.
LEMMA UpdateType ==
    ASSUME NEW S, NEW T, NEW f \in [S -> T], NEW x, NEW y \in T
    PROVE  [f EXCEPT ![x] = y] \in [S -> T]
  BY Zenon

ProjectionOK(view) ==
    /\ view \in [Secrets -> Projections]
    /\ \A s \in Secrets :
          /\ view[s].tx = None <=> view[s].state = "absent"
          /\ view[s].created = None <=> view[s].state = "absent"

\* apply_secret_set_projection and apply_secret_delete_projection write a
\* complete row.
LEMMA ProjectedType ==
    ASSUME NEW view, ProjectionOK(view), NEW t \in Transactions
    PROVE  ProjectionOK(Projected(view, t))
  <1>1. CASE ~IsSecret(t)
    BY Zenon, <1>1 DEF Projected
  <1>2. CASE IsSecret(t)
    <2> DEFINE created == IF view[SecretOf[t]].state = "absent"
                          THEN t ELSE view[SecretOf[t]].created
               row == [state |-> IF Kind[t] = "secret.set" THEN "active" ELSE "deleted",
                       tx |-> t, created |-> created]
    <2>1. SecretOf[t] \in Secrets /\ t # None
      BY InboundAssumption
    <2>2. view[SecretOf[t]] \in Projections
      BY Zenon, <2>1 DEF ProjectionOK
    <2>3. created \in Transactions
      BY Zenon, <2>1, <2>2 DEF ProjectionOK, Projections
    <2>4. created # None
      BY <2>3, InboundAssumption
    <2> HIDE DEF created
    <2>5. row \in Projections /\ row.state # "absent" /\ row.tx # None /\ row.created # None
      BY Zenon, <2>1, <2>3, <2>4 DEF Projections
    <2>6. Projected(view, t) = [view EXCEPT ![SecretOf[t]] = row]
      BY Zenon, <1>2 DEF Projected, created
    <2> HIDE DEF row
    <2> QED
      BY Zenon, <2>1, <2>5, <2>6 DEF ProjectionOK
  <1> QED
    BY Zenon, <1>1, <1>2

\* Queued rows are pairs of an own transaction and a peer.
LEMMA QueuedType ==
    ASSUME NEW t \in Transactions
    PROVE  /\ Queued(t) \subseteq Transactions \X Peers
           /\ \A e \in Queued(t) : Origin[e[1]] = Self
  <1>1. ASSUME NEW e \in Queued(t)
        PROVE  e \in Transactions \X Peers /\ Origin[e[1]] = Self
    <2>1. e \in {t} \X Peers /\ Origin[t] = Self
      BY Zenon, <1>1 DEF Queued
    <2>2. e[1] = t /\ e \in Transactions \X Peers
      BY Zenon, <2>1
    <2> QED
      BY Zenon, <2>1, <2>2
  <1> QED
    BY Zenon, <1>1

\* The log stays a sequence of rows.
LEMMA LogType ==
    ASSUME TypeOK, LogMayChange
    PROVE  log' \in Seq(Rows)
  <1>1. ASSUME NEW t \in Transactions, NEW payload \in Payloads, OneRow(t, payload)
        PROVE  log' \in Seq(Rows)
    BY Zenon, <1>1, OneRowLog DEF GrownByOne
  <1>2. ASSUME NEW t \in LocalSets, TwoRows(t)
        PROVE  log' \in Seq(Rows)
    BY Zenon, <1>2, TwoRowsLog DEF GrownByTwo
  <1> QED
    BY Zenon, <1>1, <1>2 DEF LogMayChange, TypeOK

\* Every label of a runtime.
Labels == {"idle", "verify", "localize", "apply", "applied", "rejected"}

\* The columns of the runtimes, as TypeOK and Progress describe them.
RuntimesOK ==
    /\ pc \in [Runtimes -> Labels]
    /\ env \in [Runtimes -> Remote \cup {None}]
    /\ copy \in [Runtimes -> Payloads \cup {None}]
    /\ \A r \in Runtimes : pc[r] = "idle" <=> env[r] = None
    /\ Progress

\* The tables, as TypeOK and OnlyOwnForwarded describe them.
TablesOK ==
    /\ nodes \in [Peers -> {"admission_requested", "active", "revoked"}]
    /\ log \in Seq(Rows)
    /\ ProjectionOK(secrets)
    /\ outbound \subseteq Transactions \X Peers
    /\ OnlyOwnForwarded
    /\ kills \in 0 .. MaxKills
    /\ delivered \subseteq Remote
    /\ DeliveredIsRetained

\* The invariant in two parts.
LEMMA Parts == IInv <=> RuntimesOK /\ TablesOK /\ LogInv
  BY Zenon DEF IInv, RuntimesOK, TablesOK, TypeOK, ProjectionOK, Labels
-----------------------------------------------------------------------------
(***************************************************************************)
(* The steps.                                                              *)
(***************************************************************************)

\* The table rows has the transaction u: Retained for a given table.
Holds(rows, u) == \E i \in DOMAIN rows : rows[i].tx = u

\* A runtime that moves to a label it may have keeps the runtimes well formed.
LEMMA RuntimeMoves ==
    ASSUME RuntimesOK, NEW r \in Runtimes,
           NEW label \in Labels, NEW t \in Remote \cup {None},
           NEW payload \in Payloads \cup {None},
           pc' = [pc EXCEPT ![r] = label],
           env' = [env EXCEPT ![r] = t],
           copy' = [copy EXCEPT ![r] = payload],
           label = "idle" <=> t = None,
           label = "apply" => payload # None,
           label = "applied" => Holds(log', t),
           \A u : Holds(log, u) => Holds(log', u)
    PROVE  RuntimesOK'
  <1>1. /\ pc' \in [Runtimes -> Labels]
        /\ env' \in [Runtimes -> Remote \cup {None}]
        /\ copy' \in [Runtimes -> Payloads \cup {None}]
    BY Zenon, UpdateType DEF RuntimesOK
  <1>2. /\ pc'[r] = label /\ env'[r] = t /\ copy'[r] = payload
        /\ \A q \in Runtimes \ {r} : pc'[q] = pc[q] /\ env'[q] = env[q] /\ copy'[q] = copy[q]
    BY Zenon DEF RuntimesOK
  <1>3. \A q \in Runtimes : pc'[q] = "idle" <=> env'[q] = None
    BY Zenon, <1>2 DEF RuntimesOK
  <1>4. ASSUME NEW q \in Runtimes
        PROVE  /\ pc'[q] = "apply" => copy'[q] # None
               /\ pc'[q] = "applied" => Holds(log', env'[q])
    <2>1. CASE q = r
      BY Zenon, <1>2, <2>1
    <2>2. CASE q # r
      BY ZenonT(30), <1>2, <2>2 DEF RuntimesOK, Progress, Retained, Holds
    <2> QED
      BY Zenon, <2>1, <2>2
  <1> QED
    BY Zenon, <1>1, <1>3, <1>4 DEF RuntimesOK, Progress, Remote, Payloads, Retained, Holds

\* Writing back what is there changes nothing.
LEMMA SameUpdate ==
    ASSUME NEW S, NEW T, NEW f \in [S -> T], NEW x \in S
    PROVE  f = [f EXCEPT ![x] = f[x]]
  BY Zenon

\* A localized payload is a payload, or the refusal.
LEMMA LocalizedType ==
    ASSUME TypeOK, NEW r \in Runtimes, NEW t \in Transactions
    PROVE  Localized(r, t) \in Payloads \cup {None}
  <1>1. CASE ~Rewrapped(t)
    BY Zenon, <1>1 DEF Localized, Payloads
  <1>2. CASE Rewrapped(t) /\ Retained(t)
    <2>1. RetainedPayload(t) \in Payloads
      <3> DEFINE i == CHOOSE i \in DOMAIN log : log[i].tx = t
      <3>1. i \in DOMAIN log
        BY Zenon, <1>2 DEF Retained
      <3>2. log[i] \in Rows
        BY <3>1 DEF TypeOK
      <3> HIDE DEF i
      <3>3. log[i].payload \in Payloads
        BY Zenon, <3>2 DEF Rows
      <3> QED
        BY Zenon, <3>3 DEF RetainedPayload, i
    <2> QED
      BY Zenon, <1>2, <2>1 DEF Localized
  <1>3. CASE Rewrapped(t) /\ ~Retained(t)
    BY Zenon, <1>3 DEF Localized, Payloads
  <1> QED
    BY Zenon, <1>1, <1>2, <1>3

\* The runtimes stay well formed.
LEMMA RuntimesKept ==
    ASSUME IInv, [Next]_vars
    PROVE  RuntimesOK'
  <1>1. TypeOK /\ RuntimesOK
    BY Zenon, Parts DEF IInv
  <1>2. LogMayChange
    BY Zenon, LogSteps DEF IInv
  <1>3. \A u : Holds(log, u) => Holds(log', u)
    BY Zenon, <1>1, <1>2, RetainedForever DEF Holds, Retained
  <1>4. ASSUME UNCHANGED <<pc, env, copy>>
        PROVE  RuntimesOK'
    BY Zenon, <1>1, <1>3, <1>4 DEF RuntimesOK, Progress, Remote, Payloads, Retained, Holds
  <1>5. ASSUME NEW r \in Runtimes
        PROVE  /\ pc[r] \in Labels /\ env[r] \in Remote \cup {None}
               /\ copy[r] \in Payloads \cup {None}
               /\ env = [env EXCEPT ![r] = env[r]]
               /\ copy = [copy EXCEPT ![r] = copy[r]]
               /\ pc[r] # "idle" => env[r] # None /\ env[r] \in Transactions
    BY Zenon, <1>1 DEF RuntimesOK, Remote
  <1>6. ASSUME NEW r \in Runtimes, Verify(r)
        PROVE  RuntimesOK'
    <2> DEFINE label == IF nodes[Origin[env[r]]] = "active" THEN "localize" ELSE "rejected"
    <2>1. pc' = [pc EXCEPT ![r] = label] /\ env' = env /\ copy' = copy /\ pc[r] = "verify"
      BY Zenon, <1>6 DEF Verify
    <2>2. label \in Labels /\ label # "idle" /\ label # "apply" /\ label # "applied"
      BY Zenon DEF Labels
    <2>3. /\ env[r] \in Remote \cup {None} /\ env[r] # None
          /\ copy[r] \in Payloads \cup {None}
          /\ env' = [env EXCEPT ![r] = env[r]]
          /\ copy' = [copy EXCEPT ![r] = copy[r]]
      BY Zenon, <1>5, <2>1
    <2> HIDE DEF label
    <2> QED
      BY ZenonT(30), <1>1, <1>3, <2>1, <2>2, <2>3, RuntimeMoves
  <1>7. ASSUME NEW r \in Runtimes, Localize(r)
        PROVE  RuntimesOK'
    <2> DEFINE payload == Localized(r, env[r])
               label == IF payload = None THEN "rejected" ELSE "apply"
    <2>1. /\ pc' = [pc EXCEPT ![r] = label] /\ env' = env
          /\ copy' = [copy EXCEPT ![r] = payload] /\ pc[r] = "localize"
      BY Zenon, <1>7 DEF Localize
    <2>2. payload \in Payloads \cup {None}
      BY Zenon, <1>1, <1>5, <2>1, LocalizedType
    <2>3. label \in Labels /\ label # "idle" /\ label # "applied"
          /\ (label = "apply" => payload # None)
      BY Zenon DEF Labels
    <2> HIDE DEF label, payload
    <2> QED
      BY Zenon, <1>1, <1>3, <1>5, <2>1, <2>2, <2>3, RuntimeMoves
  <1>8. ASSUME NEW r \in Runtimes, Apply(r)
        PROVE  RuntimesOK'
    <2>1. PICK label \in {"applied", "rejected"} :
             /\ pc' = [pc EXCEPT ![r] = label]
             /\ label = "applied" => SubmitRemote(env[r], copy[r])
      BY Zenon, <1>8 DEF Apply
    <2>2. env' = env /\ copy' = copy /\ pc[r] = "apply"
      BY Zenon, <1>8 DEF Apply
    <2>3. label = "applied" => Holds(log', env[r])
      <3> SUFFICES ASSUME label = "applied", ~Retained(env[r])
                   PROVE  Holds(log', env[r])
        BY Zenon, <1>3 DEF Retained, Holds
      <3> DEFINE row == [tx |-> env[r], payload |-> copy[r]]
      <3>1. log' = Append(log, row) /\ row.tx = env[r]
        BY Zenon, <2>1 DEF SubmitRemote, Commit
      <3>2. row \in Rows /\ log \in Seq(Rows)
        BY Zenon, <1>1, <1>5, <2>2 DEF Rows, TypeOK, RuntimesOK, Progress
      <3> HIDE DEF row
      <3>3. Len(log) + 1 \in DOMAIN log' /\ log'[Len(log) + 1] = row
        BY <3>1, <3>2, AppendRow
      <3> QED
        BY Zenon, <3>1, <3>3 DEF Holds
    <2>4. label \in Labels /\ label # "idle" /\ label # "apply"
      BY Zenon DEF Labels
    <2> QED
      BY Zenon, <1>1, <1>3, <1>5, <2>1, <2>2, <2>3, <2>4, RuntimeMoves
  <1>9. ASSUME NEW r \in Runtimes, Answer(r) \/ Kill(r)
        PROVE  RuntimesOK'
    <2>1. /\ pc' = [pc EXCEPT ![r] = "idle"]
          /\ env' = [env EXCEPT ![r] = None]
          /\ copy' = [copy EXCEPT ![r] = None]
      BY Zenon, <1>9 DEF Answer, Kill
    <2>2. "idle" \in Labels
      BY Zenon DEF Labels
    <2> QED
      BY Zenon, <1>1, <1>3, <2>1, <2>2, RuntimeMoves
  <1>10. ASSUME NEW r \in Runtimes, NEW t \in Remote, Deliver(r, t)
         PROVE  RuntimesOK'
    <2>1. /\ pc' = [pc EXCEPT ![r] = "verify"]
          /\ env' = [env EXCEPT ![r] = t]
          /\ copy' = copy
      BY Zenon, <1>10 DEF Deliver
    <2>2. "verify" \in Labels /\ t # None
      BY SMTT(30), InboundAssumption DEF Labels, Remote
    <2> QED
      BY Zenon, <1>1, <1>3, <1>5, <2>1, <2>2, RuntimeMoves
  <1>11. CASE \E t \in LocalSets : Set(t) \/ ImportLocal(t)
    BY Zenon, <1>4, <1>11 DEF Set, ImportLocal, SetSecret
  <1>12. CASE \E t \in Transactions : Delete(t)
    BY Zenon, <1>4, <1>12 DEF Delete
  <1>13. CASE \E s \in Secrets : Authorize(s)
    BY Zenon, <1>4, <1>13 DEF Authorize
  <1>14. CASE \E p \in Peers : Accept(p) \/ Revoke(p)
    BY Zenon, <1>4, <1>14 DEF Accept, Revoke
  <1>15. CASE UNCHANGED vars
    BY Zenon, <1>4, <1>15 DEF vars
  <1> QED
    BY Zenon, <1>6, <1>7, <1>8, <1>9, <1>10, <1>11, <1>12, <1>13, <1>14, <1>15
       DEF Next, RuntimeStep

\* The tables stay well formed.
LEMMA TablesKept ==
    ASSUME IInv, [Next]_vars
    PROVE  TablesOK'
  <1>1. TypeOK /\ TablesOK /\ RuntimesOK
    BY Zenon, Parts DEF IInv
  <1>2. LogMayChange
    BY Zenon, LogSteps DEF IInv
  <1>3. log' \in Seq(Rows)
    BY Zenon, <1>1, <1>2, LogType
  <1>4. \A u : Holds(log, u) => Holds(log', u)
    BY Zenon, <1>1, <1>2, RetainedForever DEF Holds, Retained
  <1>5. ASSUME delivered' = delivered
        PROVE  delivered' \subseteq Remote /\ \A t \in delivered' : Holds(log', t)
    BY Zenon, <1>1, <1>4, <1>5 DEF TablesOK, DeliveredIsRetained, Retained, Holds
  <1> DEFINE Others ==
        /\ nodes' \in [Peers -> {"admission_requested", "active", "revoked"}]
        /\ kills' \in 0 .. MaxKills
        /\ delivered' \subseteq Remote /\ \A t \in delivered' : Holds(log', t)
      Written ==
        /\ ProjectionOK(secrets')
        /\ outbound' \subseteq Transactions \X Peers
        /\ \A e \in outbound' : Origin[e[1]] = Self
  <1>6. ASSUME Others, Written
        PROVE  TablesOK'
    BY Zenon, <1>3, <1>6 DEF TablesOK, ProjectionOK, OnlyOwnForwarded, DeliveredIsRetained,
                      Retained, Holds, Remote
  <1>7. ASSUME UNCHANGED <<secrets, outbound>>
        PROVE  Written
    BY Zenon, <1>1, <1>7 DEF TablesOK, ProjectionOK, OnlyOwnForwarded
  <1>8. ASSUME UNCHANGED <<nodes, kills, delivered>>
        PROVE  Others
    BY Zenon, <1>1, <1>5, <1>8 DEF TablesOK
  <1>9. ASSUME NEW t \in Transactions, NEW payload, Commit(t, payload)
        PROVE  Written
    <2>1. ProjectionOK(secrets')
      BY Zenon, <1>1, <1>9, ProjectedType DEF Commit, TablesOK
    <2>2. outbound' = outbound \cup Queued(t)
      BY Zenon, <1>9 DEF Commit
    <2> QED
      BY Zenon, <1>1, <2>1, <2>2, QueuedType DEF TablesOK, OnlyOwnForwarded
  <1>10. ASSUME NEW t \in LocalSets, Set(t) \/ ImportLocal(t)
         PROVE  Others /\ Written
    <2>1. t \in Transactions /\ Vocabulary[t] \in Transactions
      BY Zenon, InboundAssumption DEF LocalSets
    <2>2. secrets' = Projected(secrets, t)
      BY Zenon, <1>10 DEF Set, ImportLocal, SetSecret
    <2>3. ProjectionOK(secrets')
      BY Zenon, <1>1, <2>1, <2>2, ProjectedType DEF TablesOK
    <2>4. outbound' = outbound \cup Queued(Vocabulary[t]) \cup Queued(t) \/ outbound' = outbound
      BY Zenon, <1>10 DEF Set, ImportLocal, SetSecret
    <2>5. Written
      BY Zenon, <1>1, <2>1, <2>3, <2>4, QueuedType DEF TablesOK, OnlyOwnForwarded
    <2>6. UNCHANGED <<nodes, kills, delivered>>
      BY Zenon, <1>10 DEF Set, ImportLocal, SetSecret
    <2> QED
      BY Zenon, <1>8, <2>5, <2>6
  <1>11. ASSUME NEW t \in Transactions, Delete(t)
         PROVE  Others /\ Written
    BY Zenon, <1>8, <1>9, <1>11 DEF Delete
  <1>12. ASSUME NEW s \in Secrets, Authorize(s)
         PROVE  Others /\ Written
    <2>1. PICK i \in History(s) :
             /\ Prerequisite(i)
             /\ outbound' = outbound \cup Queued(log[i - 1].tx) \cup Queued(log[i].tx)
      BY Zenon, <1>12 DEF Authorize
    <2>2. i \in 1 .. Len(log) /\ Len(log) \in Nat /\ i > 1
      BY <1>1, <2>1 DEF History, TypeOK, Prerequisite
    <2>3. i - 1 \in 1 .. Len(log)
      BY SMTT(30), <2>2
    <2>4. log[i] \in Rows /\ log[i - 1] \in Rows
      BY SMTT(30), <1>1, <2>2, <2>3 DEF TypeOK
    <2>5. log[i].tx \in Transactions /\ log[i - 1].tx \in Transactions
      BY Zenon, <2>4 DEF Rows
    <2>6. UNCHANGED <<secrets, nodes, kills, delivered>>
      BY Zenon, <1>12 DEF Authorize
    <2>7. ProjectionOK(secrets')
      BY Zenon, <1>1, <2>6 DEF TablesOK
    <2>8. Written
      BY Zenon, <1>1, <2>1, <2>5, <2>7, QueuedType DEF TablesOK, OnlyOwnForwarded
    <2> QED
      BY Zenon, <1>8, <2>6, <2>8
  <1>13. ASSUME NEW r \in Runtimes, Apply(r)
         PROVE  Others /\ Written
    <2>1. env[r] \in Transactions
      BY Zenon, <1>1, <1>13 DEF Apply, RuntimesOK, Remote
    <2>2. UNCHANGED <<secrets, outbound>> \/ Commit(env[r], copy[r])
      BY Zenon, <1>13 DEF Apply, SubmitRemote
    <2>3. UNCHANGED <<nodes, kills, delivered>>
      BY Zenon, <1>13 DEF Apply
    <2> QED
      BY Zenon, <1>7, <1>8, <1>9, <2>1, <2>2, <2>3
  <1>14. ASSUME NEW r \in Runtimes, Answer(r)
         PROVE  Others /\ Written
    <2>1. UNCHANGED <<secrets, outbound, nodes, kills, log>>
      BY Zenon, <1>14 DEF Answer
    <2>2. pc[r] = "applied" => env[r] \in Remote /\ Holds(log, env[r])
      BY Zenon, <1>1 DEF RuntimesOK, Progress, Retained, Holds
    <2>3. \/ delivered' = delivered
          \/ pc[r] = "applied" /\ delivered' = delivered \cup {env[r]}
      <3>1. delivered' = IF pc[r] = "applied" THEN delivered \cup {env[r]} ELSE delivered
        BY Zenon, <1>14 DEF Answer
      <3> QED
        BY Zenon, <3>1
    <2>4. delivered \subseteq Remote /\ \A t \in delivered : Holds(log, t)
      BY Zenon, <1>1 DEF TablesOK, DeliveredIsRetained, Retained, Holds
    <2>5. delivered' \subseteq Remote /\ \A t \in delivered' : Holds(log', t)
      BY Zenon, <2>2, <2>3, <2>4, <1>4
    <2> QED
      BY Zenon, <1>1, <1>7, <2>1, <2>5 DEF TablesOK
  <1>15. ASSUME NEW r \in Runtimes, Kill(r)
         PROVE  Others /\ Written
    <2>1. kills' \in 0 .. MaxKills
      BY <1>1, <1>15, InboundAssumption DEF Kill, TablesOK
    <2>2. UNCHANGED <<secrets, outbound, nodes, delivered>>
      BY Zenon, <1>15 DEF Kill
    <2> QED
      BY Zenon, <1>1, <1>5, <1>7, <2>1, <2>2 DEF TablesOK
  <1>16. ASSUME NEW p \in Peers, Accept(p) \/ Revoke(p)
         PROVE  Others /\ Written
    <2>1. nodes' \in [Peers -> {"admission_requested", "active", "revoked"}]
      BY Zenon, <1>1, <1>16 DEF Accept, Revoke, TablesOK
    <2>2. UNCHANGED <<secrets, outbound, kills, delivered>>
      BY Zenon, <1>16 DEF Accept, Revoke
    <2> QED
      BY Zenon, <1>1, <1>5, <1>7, <2>1, <2>2 DEF TablesOK
  <1>17. ASSUME NEW r \in Runtimes,
                Verify(r) \/ Localize(r) \/ \E t \in Remote : Deliver(r, t)
         PROVE  Others /\ Written
    <2>1. UNCHANGED <<secrets, outbound>> /\ UNCHANGED <<nodes, kills, delivered>>
      BY Zenon, <1>17 DEF Verify, Localize, Deliver
    <2> QED
      BY Zenon, <1>7, <1>8, <2>1
  <1>18. CASE UNCHANGED vars
    BY Zenon, <1>6, <1>7, <1>8, <1>18 DEF vars
  <1> HIDE DEF Others, Written
  <1>19. CASE Next
    <2>1. Others /\ Written
      BY Zenon, <1>10, <1>11, <1>12, <1>13, <1>14, <1>15, <1>16, <1>17, <1>19
         DEF Next, RuntimeStep
    <2> QED
      BY Zenon, <1>6, <2>1
  <1> QED
    BY Zenon, <1>18, <1>19
-----------------------------------------------------------------------------
(***************************************************************************)
(* The replay of the log, by induction on its length: the projection after *)
(* n rows exists and is unique, so that what a replay computes for a log   *)
(* and for the same log with one more row are one projection apart.        *)
(***************************************************************************)

\* g gives the projection after each of the first n rows of a log.
ReplayUpTo(g, rows, n) ==
    g = [i \in 0 .. n |-> IF i = 0 THEN [s \in Secrets |-> Absent]
                          ELSE Projected(g[i - 1], rows[i].tx)]

LOCAL INSTANCE WellFoundedInduction

\* A set of numbers that is not empty has a first one.
LEMMA FirstNumber ==
    ASSUME NEW S, S \subseteq Nat, S # {}
    PROVE  \E n \in S : \A m \in S : ~ (m < n)
  <1>1. PICK n \in S : \A m \in S : ~ (<<m, n>> \in OpToRel(<, Nat))
    BY Zenon, NatLessThanWellFounded, WFMin
  <1> QED
    BY Zenon, <1>1 DEF OpToRel

\* Every log can be replayed.
LEMMA ReplayExists ==
    ASSUME NEW rows, NEW k \in Nat
    PROVE  \E g : ReplayUpTo(g, rows, k)
  <1> DEFINE Bad == {n \in Nat : ~ \E g : ReplayUpTo(g, rows, n)}
  <1>1. SUFFICES Bad = {}
    BY Zenon
  <1>2. SUFFICES ASSUME Bad # {} PROVE FALSE
    BY Zenon
  <1>3. PICK n \in Bad : \A m \in Bad : ~ (m < n)
    BY Zenon, <1>2, FirstNumber
  <1>4. CASE n = 0
    <2> DEFINE g == [i \in 0 .. 0 |-> [s \in Secrets |-> Absent]]
    <2>1. ReplayUpTo(g, rows, 0)
      BY DEF ReplayUpTo
    <2> QED
      BY Zenon, <1>3, <1>4, <2>1
  <1>5. CASE n # 0
    <2>1. n \in Nat /\ n - 1 \in Nat /\ n - 1 < n
      BY <1>5
    <2>2. PICK g : ReplayUpTo(g, rows, n - 1)
      BY Zenon, <1>3, <2>1
    <2> DEFINE h == [i \in 0 .. n |-> IF i = n THEN Projected(g[n - 1], rows[n].tx) ELSE g[i]]
    <2>3. ASSUME NEW i \in 0 .. n
          PROVE  h[i] = IF i = 0 THEN [s \in Secrets |-> Absent] ELSE Projected(h[i - 1], rows[i].tx)
      <3>1. CASE i = n
        <4>1. h[n - 1] = g[n - 1] /\ h[n] = Projected(g[n - 1], rows[n].tx)
          BY SMTT(30), <2>1
        <4> QED
          BY Zenon, <1>5, <3>1, <4>1
      <3>2. CASE i # n
        <4>1. i \in 0 .. n - 1 /\ h[i] = g[i]
          BY <2>1, <3>2
        <4>2. i # 0 => h[i - 1] = g[i - 1]
          BY SMTT(30), <2>1, <3>2
        <4>3. g[i] = IF i = 0 THEN [s \in Secrets |-> Absent] ELSE Projected(g[i - 1], rows[i].tx)
          BY Zenon, <2>2, <4>1 DEF ReplayUpTo
        <4> QED
          BY Zenon, <4>1, <4>2, <4>3
      <3> QED
        BY Zenon, <3>1, <3>2
    <2>4. ReplayUpTo(h, rows, n)
      <3> HIDE DEF h
      <3>1. h = [i \in 0 .. n |-> h[i]]
        BY Zenon DEF h
      <3> QED
        BY Zenon, <2>3, <3>1 DEF ReplayUpTo
    <2> QED
      BY Zenon, <2>4
  <1> QED
    BY Zenon, <1>4, <1>5

\* Two replays agree as far as their logs do.
LEMMA ReplayUnique ==
    ASSUME NEW rows, NEW more, NEW k \in Nat, NEW l \in Nat, k <= l,
           \A i \in 1 .. k : rows[i] = more[i],
           NEW g, NEW h, ReplayUpTo(g, rows, k), ReplayUpTo(h, more, l)
    PROVE  g[k] = h[k]
  <1> DEFINE Bad == {n \in 0 .. k : g[n] # h[n]}
  <1>1. SUFFICES ASSUME Bad # {} PROVE FALSE
    OBVIOUS
  <1>2. PICK n \in Bad : \A m \in Bad : ~ (m < n)
    <2>1. Bad \subseteq Nat
      OBVIOUS
    <2> QED
      BY Zenon, <1>1, <2>1, FirstNumber
  <1>3. g[n] = IF n = 0 THEN [s \in Secrets |-> Absent] ELSE Projected(g[n - 1], rows[n].tx)
    BY Zenon DEF ReplayUpTo
  <1>4. h[n] = IF n = 0 THEN [s \in Secrets |-> Absent] ELSE Projected(h[n - 1], more[n].tx)
    <2>1. n \in 0 .. l
      OBVIOUS
    <2> QED
      BY Zenon, <2>1 DEF ReplayUpTo
  <1>5. n # 0 => n - 1 \in 0 .. k /\ n - 1 < n /\ n \in 1 .. k
    OBVIOUS
  <1>6. n # 0 => g[n - 1] = h[n - 1]
    BY Zenon, <1>2, <1>5
  <1> QED
    BY Zenon, <1>2, <1>3, <1>4, <1>5, <1>6

\* ReplayOf is the last projection of a replay.
LEMMA ReplayIs ==
    ASSUME NEW rows, Len(rows) \in Nat
    PROVE  \E g : ReplayUpTo(g, rows, Len(rows)) /\ ReplayOf(rows) = g[Len(rows)]
  <1> DEFINE f == CHOOSE g : ReplayUpTo(g, rows, Len(rows))
  <1>1. ReplayUpTo(f, rows, Len(rows))
    BY Zenon, ReplayExists
  <1>2. ReplayOf(rows) = f[Len(rows)]
    BY Zenon DEF ReplayOf, ReplayUpTo
  <1> QED
    BY Zenon, <1>1, <1>2

\* Replaying one more row projects it onto what the rows before it gave.
LEMMA ReplayAppend ==
    ASSUME NEW rows \in Seq(Rows), NEW row \in Rows
    PROVE  ReplayOf(Append(rows, row)) = Projected(ReplayOf(rows), row.tx)
  <1> DEFINE more == Append(rows, row)
             k == Len(rows)
  <1>1. /\ k \in Nat /\ Len(more) = k + 1 /\ more[k + 1] = row
        /\ \A i \in 1 .. k : rows[i] = more[i]
    OBVIOUS
  <1>2. PICK g : ReplayUpTo(g, rows, k) /\ ReplayOf(rows) = g[k]
    BY Zenon, <1>1, ReplayIs
  <1> HIDE DEF more
  <1>3. PICK h : ReplayUpTo(h, more, k + 1) /\ ReplayOf(more) = h[k + 1]
    BY SMTT(30), <1>1, ReplayIs
  <1> HIDE DEF k
  <1>4. g[k] = h[k]
    BY SMTT(30), <1>1, <1>2, <1>3, ReplayUnique
  <1>5. h[k + 1] = Projected(h[k], more[k + 1].tx)
    BY <1>1, <1>3 DEF ReplayUpTo
  <1> QED
    BY Zenon, <1>1, <1>2, <1>3, <1>4, <1>5 DEF more

\* An empty log replays to a projection without secrets.
LEMMA ReplayEmpty == ReplayOf(<<>>) = [s \in Secrets |-> Absent]
  <1>1. PICK g : ReplayUpTo(g, <<>>, 0) /\ ReplayOf(<<>>) = g[0]
    BY SMTT(30), ReplayIs
  <1> QED
    BY <1>1 DEF ReplayUpTo

\* Every step leaves the projection that the new log replays to: a commit
\* projects the row it appends, and the vocabulary of a set projects to nothing.
LEMMA RebuildKept ==
    ASSUME IInv, RebuildIsIdentity, [Next]_vars
    PROVE  RebuildIsIdentity'
  <1>1. secrets = ReplayOf(log) /\ log \in Seq(Rows)
    BY Zenon DEF RebuildIsIdentity, Replayed, IInv, TypeOK
  <1>2. SUFFICES secrets' = ReplayOf(log')
    BY Zenon DEF RebuildIsIdentity, Replayed, ReplayOf, Projected, Absent, IsSecret
  <1>3. ASSUME UNCHANGED <<log, secrets>>
        PROVE  secrets' = ReplayOf(log')
    BY Zenon, <1>1, <1>3
  <1>4. ASSUME NEW t \in Transactions, NEW payload \in Payloads, Commit(t, payload)
        PROVE  secrets' = ReplayOf(log')
    <2> DEFINE row == [tx |-> t, payload |-> payload]
    <2>1. row \in Rows /\ row.tx = t
      BY Zenon DEF Rows
    <2>2. log' = Append(log, row) /\ secrets' = Projected(secrets, t)
      BY Zenon, <1>4 DEF Commit
    <2> HIDE DEF row
    <2> QED
      BY Zenon, <1>1, <2>1, <2>2, ReplayAppend
  <1>5. ASSUME NEW t \in LocalSets, Set(t) \/ ImportLocal(t)
        PROVE  secrets' = ReplayOf(log')
    <2> DEFINE first == [tx |-> Vocabulary[t], payload |-> "plain"]
               second == [tx |-> t, payload |-> OwnPayload]
    <2>1. /\ t \in Transactions /\ Vocabulary[t] \in Transactions
          /\ Kind[Vocabulary[t]] = "vocabulary"
      BY Zenon, InboundAssumption DEF LocalSets
    <2>2. first \in Rows /\ first.tx = Vocabulary[t] /\ second \in Rows /\ second.tx = t
      BY Zenon, <2>1 DEF Rows, Payloads, OwnPayload
    <2>3. log' = Append(Append(log, first), second) /\ secrets' = Projected(secrets, t)
      BY Zenon, <1>5 DEF Set, ImportLocal, SetSecret, SetRows
    <2> HIDE DEF first, second
    <2>4. Append(log, first) \in Seq(Rows)
      BY <1>1, <2>2
    <2>5. ReplayOf(Append(log, first)) = Projected(ReplayOf(log), Vocabulary[t])
      BY Zenon, <1>1, <2>2, ReplayAppend
    <2>6. Projected(ReplayOf(log), Vocabulary[t]) = ReplayOf(log)
      BY Zenon, <2>1 DEF Projected, IsSecret
    <2>7. ReplayOf(log') = Projected(ReplayOf(Append(log, first)), t)
      BY Zenon, <2>2, <2>3, <2>4, ReplayAppend
    <2> QED
      BY Zenon, <1>1, <2>3, <2>5, <2>6, <2>7
  <1>6. ASSUME NEW t \in Transactions, Delete(t)
        PROVE  secrets' = ReplayOf(log')
    <2>1. OwnPayload \in Payloads
      BY Zenon DEF OwnPayload, Payloads
    <2> QED
      BY Zenon, <1>4, <1>6, <2>1 DEF Delete
  <1>7. ASSUME NEW r \in Runtimes, Apply(r)
        PROVE  secrets' = ReplayOf(log')
    <2>1. env[r] \in Transactions /\ copy[r] \in Payloads
      BY ZenonT(30), <1>7 DEF Apply, IInv, TypeOK, Progress, Remote
    <2>2. UNCHANGED <<log, secrets>> \/ Commit(env[r], copy[r])
      BY Zenon, <1>7 DEF Apply, SubmitRemote
    <2> QED
      BY Zenon, <1>3, <1>4, <2>1, <2>2
  <1>8. ASSUME NEW r \in Runtimes,
               \/ Verify(r) \/ Localize(r) \/ Answer(r) \/ Kill(r)
               \/ \E t \in Remote : Deliver(r, t)
        PROVE  secrets' = ReplayOf(log')
    BY Zenon, <1>3, <1>8 DEF Verify, Localize, Answer, Kill, Deliver
  <1>9. CASE \E s \in Secrets : Authorize(s)
    BY Zenon, <1>3, <1>9 DEF Authorize
  <1>10. CASE \E p \in Peers : Accept(p) \/ Revoke(p)
    BY Zenon, <1>3, <1>10 DEF Accept, Revoke
  <1>11. CASE UNCHANGED vars
    BY Zenon, <1>3, <1>11 DEF vars
  <1> QED
    BY Zenon, <1>5, <1>6, <1>7, <1>8, <1>9, <1>10, <1>11 DEF Next, RuntimeStep
-----------------------------------------------------------------------------
(***************************************************************************)
(* The theorems.                                                           *)
(***************************************************************************)

\* The invariant holds at first, with an empty log and idle runtimes.
LEMMA InitInv == Init => IInv
  <1> SUFFICES ASSUME Init PROVE IInv
    BY Zenon
  <1>1. log = <<>> /\ DOMAIN log = {} /\ log \in Seq(Rows)
    BY DEF Init
  <1>2. LogInv
    BY Zenon, <1>1 DEF LogInv, AppliedOnce, OneStorageForm, AuthorizationAvailable,
                WrittenTogether, Retained, History
  <1>3. RuntimesOK
    BY Zenon DEF Init, RuntimesOK, Progress, Labels
  <1>4. ProjectionOK(secrets)
    BY Zenon DEF Init, ProjectionOK, Projections, Absent
  <1>5. nodes \in [Peers -> {"admission_requested", "active", "revoked"}]
    BY Zenon DEF Init
  <1>6. kills \in 0 .. MaxKills
    BY InboundAssumption DEF Init
  <1>7. outbound = {} /\ delivered = {}
    BY Zenon DEF Init
  <1>8. TablesOK
    BY Zenon, <1>1, <1>4, <1>5, <1>6, <1>7 DEF TablesOK, OnlyOwnForwarded, DeliveredIsRetained
  <1> QED
    BY ZenonT(30), <1>2, <1>3, <1>8, Parts

\* Every step keeps the invariant.
LEMMA StepInv == IInv /\ [Next]_vars => IInv'
  <1> SUFFICES ASSUME IInv, [Next]_vars PROVE IInv'
    BY Zenon
  <1>1. LogMayChange
    BY Zenon, LogSteps DEF IInv
  <1>2. LogInv'
    BY Zenon, <1>1, LogInvKept DEF IInv
  <1>3. RuntimesOK' /\ TablesOK'
    BY Zenon, RuntimesKept, TablesKept
  <1>4. (RuntimesOK /\ TablesOK /\ LogInv => IInv)'
    BY Parts, PTL
  <1> QED
    BY Zenon, <1>2, <1>3, <1>4

\* The inductive invariant holds in every behaviour of the receiving node.
THEOREM InboundInvariance == Spec => []IInv
  BY InitInv, StepInv, PTL DEF Spec

\* The tables and the runtimes keep their types.
THEOREM InboundTypeCorrect == Spec => []TypeOK
  <1>1. IInv => TypeOK
    BY Zenon DEF IInv
  <1> QED
    BY <1>1, InboundInvariance, PTL

\* However many runtimes race with the same envelope, submit_transaction keeps
\* one row for each transaction.
THEOREM OneRowEach == Spec => []AppliedOnce
  <1>1. IInv => AppliedOnce
    BY Zenon DEF IInv, LogInv
  <1> QED
    BY <1>1, InboundInvariance, PTL

\* A transaction answered "delivered" is in the log.
THEOREM DeliveredKept == Spec => []DeliveredIsRetained
  <1>1. IInv => DeliveredIsRetained
    BY Zenon DEF IInv
  <1> QED
    BY <1>1, InboundInvariance, PTL

\* No payload of the other storage mode enters the log, whatever the modes of
\* the peers.
THEOREM StorageFormKept == Spec => []OneStorageForm
  <1>1. IInv => OneStorageForm
    BY Zenon DEF IInv, LogInv
  <1> QED
    BY <1>1, InboundInvariance, PTL

\* Transactions of other nodes are never queued.
THEOREM NotForwarded == Spec => []OnlyOwnForwarded
  <1>1. IInv => OnlyOwnForwarded
    BY Zenon DEF IInv
  <1> QED
    BY <1>1, InboundInvariance, PTL

\* The vocabulary that authorize_existing_sqlite_secret_for_sync looks for is
\* always in front of a local set.
THEOREM PrerequisitesKept == Spec => []AuthorizationAvailable
  <1>1. IInv => AuthorizationAvailable
    BY Zenon DEF IInv, LogInv
  <1> QED
    BY <1>1, InboundInvariance, PTL

\* The projection that commands and racing runtimes maintain row by row is at
\* every moment the one rebuild_secret_projections computes from the whole log.
THEOREM RebuildChangesNothing == Spec => []RebuildIsIdentity
  <1>1. Init => RebuildIsIdentity
    BY Zenon, ReplayEmpty DEF Init, RebuildIsIdentity, Replayed
  <1> QED
    BY <1>1, InboundInvariance, RebuildKept, PTL DEF Spec

\* A remote transaction is committed only while its origin is permitted, for
\* any interleaving of revocations with the connections of the runtimes.
THEOREM PermittedAtCommit == Spec => CommittedWhilePermitted
  <1>1. ASSUME IInv, [Next]_vars, NEW t \in Remote, ~Retained(t), Retained(t)'
        PROVE  Permitted(Origin[t], t)
    <2>1. TypeOK /\ LogMayChange
      BY Zenon, <1>1, LogSteps DEF IInv
    <2>2. PICK k \in DOMAIN log' : log'[k].tx = t
      BY Zenon, <1>1 DEF Retained
    <2>3. t \in Transactions /\ Origin[t] # Self
      BY Zenon DEF Remote
    <2>4. CASE log' = log
      BY Zenon, <1>1, <2>4 DEF Retained
    <2>5. ASSUME NEW u \in Transactions, NEW payload \in Payloads, OneRow(u, payload)
          PROVE  Permitted(Origin[t], t)
      <3>1. GrownByOne(u, payload)
        BY Zenon, <2>1, <2>5, OneRowLog
      <3>2. k = Len(log) + 1
        BY SMTT(30), <1>1, <2>2, <3>1 DEF GrownByOne, Retained
      <3>3. u = t
        BY <2>2, <3>1, <3>2 DEF GrownByOne
      <3> QED
        BY Zenon, <2>3, <2>5, <3>3 DEF OneRow
    <2>6. ASSUME NEW u \in LocalSets, TwoRows(u)
          PROVE  Permitted(Origin[t], t)
      <3>1. GrownByTwo(u)
        BY Zenon, <2>1, <2>6, TwoRowsLog
      <3>2. k = Len(log) + 1 \/ k = Len(log) + 2
        BY SMTT(30), Zenon, <1>1, <2>2, <3>1 DEF GrownByTwo, Retained
      <3>3. t = u \/ t = Vocabulary[u]
        BY SMTT(30), <2>2, <3>1, <3>2 DEF GrownByTwo
      <3>4. Origin[t] = Self
        BY Zenon, <3>3, InboundAssumption DEF LocalSets
      <3> QED
        BY Zenon, <2>3, <3>4
    <2> QED
      BY Zenon, <2>1, <2>4, <2>5, <2>6 DEF LogMayChange
  <1>2. IInv /\ [Next]_vars
          => [\A t \in Remote : ~Retained(t) /\ Retained(t)' => Permitted(Origin[t], t)]_vars
    BY Zenon, <1>1
  <1> QED
    BY <1>2, InboundInvariance, PTL DEF Spec, CommittedWhilePermitted

=============================================================================
