----------------------------- MODULE RelayProofs ----------------------------
(***************************************************************************)
(* What the nodes are reached through: the relay credential of a device,   *)
(* the endpoint records of a node and its peer, and the relay sessions.    *)
(* The three components share no variable.                                 *)
(***************************************************************************)
EXTENDS RssProvisioning, EndpointLifecycle, RelaySessions, TLAPS

---------------------------------------------------------------------------
(***************************************************************************)
(* For any number of fresh keys, crashes and lost answers: what a setup of *)
(* the relay credential leaves on disk, wherever it stopped, fits what the *)
(* operator knows, and no step takes away what was written.                *)
(*                                                                         *)
(* LeftoversFit speaks of the files alone.  The invariant also says what   *)
(* the command under way relies on: which files it creates exclusively are *)
(* still missing, which of its earlier files are there, and whom the token *)
(* it is about to store was issued for.                                    *)
(***************************************************************************)

-----------------------------------------------------------------------------
(* What is on disk and what the command in the middle of its work relies on. *)

Numbers == -2 .. MaxFresh
ProfileRecords == [conn : Int, key : Int, token : BOOLEAN]
PreparedRecords == [conn : Int, key : Int]

\* Steps before the profile is written: there is none yet
BeforeProfile ==
    {"write_state", "store_token", "configure", "new_key", "profile", "import_profile"}

RssPcs ==
    {"none", "prep", "prep_key", "prep_record", "checkout", "complete", "ask", "bundle", "drop_state",
     "drop_prepared", "import_key", "material", "post", "admin", "show"} \cup BeforeProfile

RssOps == {"none", "prepare", "checkout", "enroll", "bundle", "import", "claim", "recover"}

CmdRecords == [op : RssOps, pc : RssPcs, open : BOOLEAN, tok : 0 .. MaxFresh]

OperatorRecords ==
    [issued : SUBSET Int, dead : SUBSET Int, bound : SUBSET (Int \X Int), enrolled : SUBSET PreparedRecords,
     owner : -1 .. MaxFresh, exported : {0, -2}]

\* The steps that create the file f exclusively
CreatesAt(pc, f) ==
    \/ f = "key" /\ pc \in {"prep_key", "new_key", "import_key"}
    \/ f = "prepared" /\ pc = "prep_record"
    \/ f = "receipt" /\ pc = "checkout"
    \/ f = "state" /\ pc = "write_state"
    \/ f = "token" /\ pc = "store_token"
    \/ f = "pending" /\ pc = "material"
    \/ f = "admin" /\ pc = "admin"

In(d, f) == d[f] # Absent
Filled(d, f) == d[f] # Absent /\ d[f] # Torn

\* The content of the files d
FileTypes(d) ==
    /\ DOMAIN d = RssFiles
    /\ \A f \in RssFiles \ {"prepared", "profile"} : d[f] \in {Absent, Torn} \cup Numbers
    /\ d["prepared"] \in {Absent, Torn} \cup PreparedRecords
    /\ d["profile"] \in {Absent} \cup ProfileRecords
    /\ Filled(d, "pending") => d["pending"] >= 1

\* What a command that stands at pc relies on
Needs(pc, d) ==
    /\ pc \in BeforeProfile => ~In(d, "profile")
    /\ pc \in {"drop_state", "drop_prepared"} => In(d, "profile")
    /\ pc \in {"prep_record", "profile", "import_profile"} => Filled(d, "key")
    /\ pc \in {"new_key", "profile"} => d["prepared"] # Torn
    /\ pc = "import_profile" => ~Filled(d, "prepared")
    /\ pc = "store_token" => Filled(d, "state")
    /\ pc = "write_state" => ~In(d, "token")
    /\ pc \in {"post", "admin"} => Filled(d, "pending")
    /\ pc = "show" => Filled(d, "admin") /\ d["admin"] = d["pending"]

\* A command that holds a file open created it
Opened(cmd, d) == cmd.open => \E f \in RssFiles : CreatesAt(cmd.pc, f) /\ d[f] = Torn

\* The daemon removes the token of an identity the operator enrolled
Clears(c, d, known) ==
    c # NotClearing =>
        /\ c \in [pc : {"rename", "profile", "unlink"}, profile : ProfileRecords]
        /\ In(d, "profile")
        /\ c.profile.conn = d["profile"].conn /\ c.profile.key = d["profile"].key
        /\ [conn |-> c.profile.conn, key |-> c.profile.key] \in known

\* What holds of the files between any two steps
OnDisk(d) ==
    /\ In(d, "profile") => Filled(d, "key")
    /\ Filled(d, "prepared") => Filled(d, "key") /\ d["prepared"].key = d["key"]
    /\ ~In(d, "profile") /\ In(d, "token") => Filled(d, "state")

BoundTo(d, bound) ==
    \A b \in bound : IF In(d, "profile") THEN d["profile"].conn = b[2]
                                         ELSE Filled(d, "prepared") /\ d["prepared"].conn = b[2]

OwnerHeld(d, owner) == owner > 0 => owner \in {d["pending"], d["admin"]}

CmdFits(cmd, d) ==
    /\ cmd \in CmdRecords /\ (cmd.op = "none" => cmd.pc = "none")
    /\ Opened(cmd, d) /\ Needs(cmd.pc, d)

ProvisioningTypes == FileTypes(fs) /\ rss \in OperatorRecords /\ fresh \in 1 .. MaxFresh + 1

ProvisioningInv ==
    /\ ProvisioningTypes
    /\ CmdFits(rssCmd, fs)
    /\ Clears(clearing, fs, rss.enrolled)
    /\ OnDisk(fs) /\ BoundTo(fs, rss.bound) /\ OwnerHeld(fs, rss.owner)

\* What one step keeps
Keeps(d, e, known) ==
    /\ Filled(d, "key") => e["key"] = d["key"]
    /\ In(d, "profile") => /\ In(e, "profile")
                           /\ e["profile"].conn = d["profile"].conn
                           /\ e["profile"].key = d["profile"].key
    /\ Filled(d, "token") /\ ~In(e, "token") =>
         [conn |-> d["profile"].conn, key |-> d["profile"].key] \in known

Kept == Keeps(fs, fs', rss.enrolled)

-----------------------------------------------------------------------------
(* Records and files                                                         *)

LEMMA NoContent ==
    /\ Absent # Torn /\ Absent \notin Int /\ Torn \notin Int
    /\ Absent \notin PreparedRecords /\ Torn \notin PreparedRecords
    /\ Absent \notin ProfileRecords /\ Torn \notin ProfileRecords
    /\ MaxFresh \in Nat
  BY Zenon, ProvisioningAssumption DEF PreparedRecords, ProfileRecords

LEMMA FileSet ==
    ASSUME NEW d, DOMAIN d = RssFiles, NEW f \in RssFiles, NEW v
    PROVE  /\ DOMAIN [d EXCEPT ![f] = v] = RssFiles
           /\ [d EXCEPT ![f] = v][f] = v
           /\ \A g \in RssFiles : g # f => [d EXCEPT ![f] = v][g] = d[g]
  BY Zenon

LEMMA CmdSet ==
    ASSUME NEW cmd \in CmdRecords
    PROVE  /\ \A pc \in RssPcs :
                 /\ [cmd EXCEPT !.pc = pc] \in CmdRecords
                 /\ [cmd EXCEPT !.pc = pc].pc = pc
                 /\ [cmd EXCEPT !.pc = pc].op = cmd.op
                 /\ [cmd EXCEPT !.pc = pc].open = cmd.open
                 /\ [cmd EXCEPT !.pc = pc].tok = cmd.tok
           /\ [cmd EXCEPT !.open = TRUE] \in CmdRecords
           /\ [cmd EXCEPT !.open = TRUE].pc = cmd.pc
           /\ [cmd EXCEPT !.open = TRUE].op = cmd.op
           /\ [cmd EXCEPT !.open = TRUE].open
  BY Zenon DEF CmdRecords

LEMMA UnderwayIs ==
    ASSUME NEW op \in RssOps, NEW pc \in RssPcs, NEW tok \in 0 .. MaxFresh
    PROVE  /\ Underway(op, pc, tok) \in CmdRecords
           /\ Underway(op, pc, tok).pc = pc
           /\ ~Underway(op, pc, tok).open
           /\ Underway(op, pc, tok).op = op
           /\ Underway(op, pc, tok).tok = tok
  BY Zenon DEF CmdRecords, Underway

\* A command that goes on, starts or ends
LEMMA GotoFits ==
    ASSUME NEW d, NEW e, NEW cmd, CmdFits(cmd, e), cmd.pc # "none", ~cmd.open, NEW pc \in RssPcs, Needs(pc, d)
    PROVE  CmdFits([cmd EXCEPT !.pc = pc], d)
  <1>. DEFINE next == [cmd EXCEPT !.pc = pc]
  <1>1. next \in CmdRecords /\ next.pc = pc /\ ~next.open /\ next.op = cmd.op
    BY Zenon, CmdSet DEF CmdFits
  <1>. HIDE DEF next
  <1>2. CmdFits(next, d)
    BY Zenon, <1>1 DEF CmdFits, Opened
  <1>. QED BY Zenon, <1>2 DEF next

LEMMA UnderwayFits ==
    ASSUME NEW d, NEW op \in RssOps, op # "none", NEW pc \in RssPcs, NEW tok \in 0 .. MaxFresh, Needs(pc, d)
    PROVE  CmdFits(Underway(op, pc, tok), d)
  <1>. DEFINE next == Underway(op, pc, tok)
  <1>1. next \in CmdRecords /\ next.pc = pc /\ ~next.open /\ next.op = op
    BY UnderwayIs
  <1>. HIDE DEF next
  <1>2. CmdFits(next, d)
    BY Zenon, <1>1 DEF CmdFits, Opened
  <1>. QED BY Zenon, <1>2 DEF next

LEMMA NoCmdFits == ASSUME NEW d PROVE CmdFits(NoCmd, d)
  <1>1. 0 \in 0 .. MaxFresh /\ "none" \in RssOps /\ "none" \in RssPcs
    BY NoContent DEF RssPcs, RssOps
  <1>2. NoCmd \in CmdRecords /\ NoCmd.pc = "none" /\ ~NoCmd.open
    BY <1>1, UnderwayIs DEF NoCmd
  <1>3. Needs("none", d)
    BY Zenon DEF Needs, BeforeProfile
  <1>. QED BY Zenon, <1>2, <1>3 DEF CmdFits, Opened

-----------------------------------------------------------------------------
(* Steps that leave the files alone                                          *)

LEMMA KeepsAll == ASSUME NEW d, NEW known PROVE Keeps(d, d, known)
  BY Zenon DEF Keeps, Filled, In

LEMMA CmdMoves ==
    ASSUME ProvisioningInv, CmdFits(rssCmd', fs), UNCHANGED <<fs, rss, clearing>>, fresh' = fresh
    PROVE  ProvisioningInv' /\ Kept
  BY Zenon, KeepsAll DEF ProvisioningInv, ProvisioningTypes, Kept

LEMMA CmdStops ==
    ASSUME ProvisioningInv, Stop, UNCHANGED <<fs, rss, clearing>>, fresh' = fresh
    PROVE  ProvisioningInv' /\ Kept
  BY Zenon, NoCmdFits, CmdMoves DEF Stop

LEMMA CmdGoes ==
    ASSUME ProvisioningInv, NEW pc \in RssPcs, CmdGoto(pc), rssCmd.pc # "none", ~rssCmd.open, Needs(pc, fs),
           UNCHANGED <<fs, rss, clearing>>, fresh' = fresh
    PROVE  ProvisioningInv' /\ Kept
  BY Zenon, GotoFits, CmdMoves DEF CmdGoto, ProvisioningInv

LEMMA CmdStarts ==
    ASSUME ProvisioningInv, NEW op \in RssOps, op # "none", NEW pc \in RssPcs,
           rssCmd' = Underway(op, pc, 0), Needs(pc, fs),
           UNCHANGED <<fs, rss, clearing>>, fresh' = fresh
    PROVE  ProvisioningInv' /\ Kept
  <1>1. 0 \in 0 .. MaxFresh
    BY NoContent
  <1>2. CmdFits(rssCmd', fs)
    BY Zenon, <1>1, UnderwayFits
  <1>. QED BY Zenon, <1>2, CmdMoves

\* Only the steps that create a file are inside one
LEMMA ClosedAt ==
    ASSUME ProvisioningInv, \A f \in RssFiles : ~CreatesAt(rssCmd.pc, f)
    PROVE  ~rssCmd.open
  BY Zenon DEF ProvisioningInv, CmdFits, Opened

\* Steps at which a command relies on nothing
LEMMA Carefree ==
    ASSUME NEW d, NEW pc \in {"none", "prep", "prep_key", "checkout", "complete", "ask", "bundle",
                              "import_key", "material"}
    PROVE  Needs(pc, d) /\ pc \in RssPcs
  BY Zenon DEF Needs, BeforeProfile, RssPcs

LEMMA StartsKeep ==
    ASSUME ProvisioningInv, PrepareStart \/ CheckoutStart \/ EnrollStart \/ ImportStart
    PROVE  ProvisioningInv' /\ Kept
  <1>1. /\ Needs("prep", fs) /\ Needs("checkout", fs) /\ Needs("complete", fs) /\ Needs("import_key", fs)
        /\ {"prep", "checkout", "complete", "import_key"} \subseteq RssPcs
        /\ {"prepare", "checkout", "enroll", "import"} \subseteq RssOps \ {"none"}
    BY Zenon, Carefree DEF RssOps
  <1>2. UNCHANGED <<fs, rss, clearing>> /\ fresh' = fresh
    BY Zenon DEF PrepareStart, CheckoutStart, EnrollStart, ImportStart, Private
  <1>3. \/ rssCmd' = Underway("prepare", "prep", 0) \/ rssCmd' = Underway("checkout", "checkout", 0)
        \/ rssCmd' = Underway("enroll", "complete", 0) \/ rssCmd' = Underway("import", "import_key", 0)
    BY Zenon DEF PrepareStart, CheckoutStart, EnrollStart, ImportStart
  <1>. QED BY Zenon, <1>1, <1>2, <1>3, CmdStarts

LEMMA PrepareDecideKeeps == ASSUME ProvisioningInv, PrepareDecide PROVE ProvisioningInv' /\ Kept
  <1>1. UNCHANGED <<fs, rss, clearing>> /\ fresh' = fresh /\ rssCmd.pc = "prep"
    BY Zenon DEF PrepareDecide, Private, CmdAt
  <1>2. ~rssCmd.open
    BY Zenon, <1>1, ClosedAt DEF CreatesAt
  <1>3. Needs("prep_key", fs) /\ {"prep_key", "prep_record"} \subseteq RssPcs
    BY Zenon, Carefree DEF RssPcs
  <1>4. Readable("key") => Needs("prep_record", fs)
    BY Zenon DEF Readable, Needs, BeforeProfile, Filled
  <1>5. Stop \/ CmdGoto("prep_key") \/ (CmdGoto("prep_record") /\ Readable("key"))
    BY Zenon DEF PrepareDecide
  <1>. QED BY Zenon, <1>1, <1>2, <1>3, <1>4, <1>5, CmdStops, CmdGoes

LEMMA ConfigureKeeps == ASSUME ProvisioningInv, Configure PROVE ProvisioningInv' /\ Kept
  <1>1. UNCHANGED <<fs, rss, clearing>> /\ fresh' = fresh /\ rssCmd.pc = "configure"
    BY Zenon DEF Configure, Private, CmdAt
  <1>2. ~rssCmd.open
    BY Zenon, <1>1, ClosedAt DEF CreatesAt
  <1>3. CASE Stop
    BY Zenon, <1>1, <1>3, CmdStops
  <1>4. CASE /\ ~PreparedInvalid /\ fs["key"] # Torn
             /\ CmdGoto(IF Present("key") THEN "profile" ELSE "new_key")
    <2>1. ~In(fs, "profile")
      BY Zenon, <1>1 DEF ProvisioningInv, CmdFits, Needs, BeforeProfile
    <2>2. fs["prepared"] # Torn
      BY Zenon, <1>4, NoContent DEF PreparedInvalid, Readable, Present
    <2>3. Present("key") => Needs("profile", fs)
      BY Zenon, <1>4, <2>1, <2>2 DEF Needs, BeforeProfile, Filled, Present
    <2>4. Needs("new_key", fs)
      BY Zenon, <2>1, <2>2 DEF Needs, BeforeProfile
    <2>5. {"profile", "new_key"} \subseteq RssPcs
      BY Zenon DEF RssPcs, BeforeProfile
    <2>. QED BY Zenon, <1>1, <1>2, <1>4, <2>3, <2>4, <2>5, CmdGoes
  <1>. QED BY Zenon, <1>3, <1>4 DEF Configure

LEMMA OwnerStartKeeps ==
    ASSUME ProvisioningInv, NEW op \in {"claim", "recover"}, OwnerStart(op)
    PROVE  ProvisioningInv' /\ Kept
  <1>1. UNCHANGED <<fs, rss, clearing>> /\ fresh' = fresh
    BY Zenon DEF OwnerStart, Private
  <1>2. op \in RssOps /\ op # "none" /\ {"show", "post", "material"} \subseteq RssPcs
    BY Zenon DEF RssOps, RssPcs
  <1>3. Needs("material", fs)
    BY Zenon, Carefree
  <1>4. CASE Readable("admin") /\ fs["admin"] = fs["pending"] /\ rssCmd' = Underway(op, "show", 0)
    <2>1. Needs("show", fs)
      BY Zenon, <1>4 DEF Readable, Filled, Needs, BeforeProfile
    <2>. QED BY Zenon, <1>1, <1>2, <1>4, <2>1, CmdStarts
  <1>5. CASE /\ fs["pending"] # Torn
             /\ rssCmd' = Underway(op, IF Present("pending") THEN "post" ELSE "material", 0)
    <2>1. Present("pending") => Needs("post", fs)
      BY Zenon, <1>5 DEF Present, Filled, Needs, BeforeProfile
    <2>2. CASE Present("pending")
      <3>1. rssCmd' = Underway(op, "post", 0)
        BY Zenon, <1>5, <2>2
      <3>. QED BY Zenon, <1>1, <1>2, <2>1, <2>2, <3>1, CmdStarts
    <2>3. CASE ~Present("pending")
      <3>1. rssCmd' = Underway(op, "material", 0)
        BY Zenon, <1>5, <2>3
      <3>. QED BY Zenon, <1>1, <1>2, <1>3, <3>1, CmdStarts
    <2>. QED BY Zenon, <2>2, <2>3
  <1>. QED BY Zenon, <1>4, <1>5 DEF OwnerStart

\* A reply that is lost or refused, and a stop between two file operations
LEMMA EndsKeep ==
    ASSUME ProvisioningInv, CheckoutLost \/ AskLost \/ OwnerRefused \/ Crash
    PROVE  ProvisioningInv' /\ Kept
  <1>1. UNCHANGED <<fs, rss, clearing>> /\ fresh' = fresh /\ Stop
    BY Zenon DEF CheckoutLost, AskLost, OwnerRefused, Crash, Private, Stop
  <1>. QED BY Zenon, <1>1, CmdStops

LEMMA DaemonCrashKeeps == ASSUME ProvisioningInv, DaemonCrash PROVE ProvisioningInv' /\ Kept
  <1>1. UNCHANGED <<fs, rss, rssCmd, fresh>> /\ clearing' = NotClearing
    BY Zenon DEF DaemonCrash
  <1>2. Clears(clearing', fs', rss'.enrolled)
    BY Zenon, <1>1 DEF Clears
  <1>. QED BY Zenon, <1>1, <1>2, KeepsAll DEF ProvisioningInv, ProvisioningTypes, Kept

LEMMA DaemonClearsKeeps == ASSUME ProvisioningInv, DaemonClears PROVE ProvisioningInv' /\ Kept
  <1>1. /\ UNCHANGED <<fs, rss, rssCmd, fresh>> /\ In(fs, "profile") /\ Me \in rss.enrolled
        /\ clearing' = [pc |-> "rename", profile |-> fs["profile"]]
    BY Zenon DEF DaemonClears, LoadsFile, Present, In
  <1>2. fs["profile"] \in ProfileRecords
    BY Zenon, <1>1 DEF ProvisioningInv, ProvisioningTypes, FileTypes, In
  <1>3. Clears(clearing', fs, rss.enrolled)
    BY Zenon, <1>1, <1>2 DEF Clears, Me
  <1>. QED BY Zenon, <1>1, <1>3, KeepsAll DEF ProvisioningInv, ProvisioningTypes, Kept

-----------------------------------------------------------------------------
(* Steps of the operator                                                     *)

LEMMA OperatorSet ==
    ASSUME NEW r \in OperatorRecords
    PROVE  /\ \A s \in SUBSET Int :
                /\ [r EXCEPT !.issued = s] \in OperatorRecords
                /\ [r EXCEPT !.issued = s].bound = r.bound
                /\ [r EXCEPT !.issued = s].enrolled = r.enrolled
                /\ [r EXCEPT !.issued = s].owner = r.owner
                /\ [r EXCEPT !.dead = s] \in OperatorRecords
                /\ [r EXCEPT !.dead = s].bound = r.bound
                /\ [r EXCEPT !.dead = s].enrolled = r.enrolled
                /\ [r EXCEPT !.dead = s].owner = r.owner
           /\ \A s \in SUBSET PreparedRecords :
                /\ [r EXCEPT !.enrolled = s] \in OperatorRecords
                /\ [r EXCEPT !.enrolled = s].bound = r.bound
                /\ [r EXCEPT !.enrolled = s].enrolled = s
                /\ [r EXCEPT !.enrolled = s].owner = r.owner
  BY Zenon DEF OperatorRecords

LEMMA OperatorSetMore ==
    ASSUME NEW r \in OperatorRecords
    PROVE  /\ \A s \in SUBSET (Int \X Int) :
                /\ [r EXCEPT !.bound = s] \in OperatorRecords
                /\ [r EXCEPT !.bound = s].bound = s
                /\ [r EXCEPT !.bound = s].enrolled = r.enrolled
                /\ [r EXCEPT !.bound = s].owner = r.owner
           /\ \A k \in -1 .. MaxFresh :
                /\ [r EXCEPT !.owner = k] \in OperatorRecords
                /\ [r EXCEPT !.owner = k].bound = r.bound
                /\ [r EXCEPT !.owner = k].enrolled = r.enrolled
                /\ [r EXCEPT !.owner = k].owner = k
  BY Zenon DEF OperatorRecords

LEMMA OperatorMoves ==
    ASSUME ProvisioningInv, rss' \in OperatorRecords, rss.enrolled \subseteq rss'.enrolled,
           BoundTo(fs, rss'.bound), OwnerHeld(fs, rss'.owner), CmdFits(rssCmd', fs),
           UNCHANGED <<fs, clearing>>, fresh' \in 1 .. MaxFresh + 1
    PROVE  ProvisioningInv' /\ Kept
  <1>1. Clears(clearing, fs, rss'.enrolled)
    BY Zenon DEF ProvisioningInv, Clears
  <1>. QED BY Zenon, <1>1, KeepsAll DEF ProvisioningInv, ProvisioningTypes, Kept

LEMMA FreshIs ==
    ASSUME ProvisioningInv, Fresh
    PROVE  /\ fresh \in Int /\ fresh \in 0 .. MaxFresh /\ fresh \in Numbers /\ fresh >= 1
           /\ fresh + 1 \in 1 .. MaxFresh + 1 /\ fresh \in 1 .. MaxFresh + 1
  BY NoContent DEF ProvisioningInv, ProvisioningTypes, Fresh, Numbers

LEMMA AskOperatorKeeps == ASSUME ProvisioningInv, AskOperator PROVE ProvisioningInv' /\ Kept
  <1>. DEFINE more == rss.issued \cup {fresh}
  <1>1. /\ rssCmd.pc = "ask" /\ UNCHANGED <<fs, clearing>> /\ fresh' = fresh + 1 /\ Fresh
        /\ rss' = [rss EXCEPT !.issued = more] /\ rssCmd' = Underway(rssCmd.op, "bundle", fresh)
    BY Zenon DEF AskOperator, CmdAt
  <1>2. rss \in OperatorRecords /\ rss.issued \subseteq Int
    BY Zenon DEF ProvisioningInv, ProvisioningTypes, OperatorRecords
  <1>3. more \in SUBSET Int
    BY Zenon, <1>1, <1>2, FreshIs
  <1>. HIDE DEF more
  <1>4. /\ rss' \in OperatorRecords /\ rss'.enrolled = rss.enrolled /\ rss'.bound = rss.bound
        /\ rss'.owner = rss.owner
    BY Zenon, <1>1, <1>2, <1>3, OperatorSet
  <1>5. rssCmd.op \in RssOps /\ rssCmd.op # "none"
    BY Zenon, <1>1 DEF ProvisioningInv, CmdFits, CmdRecords
  <1>6. CmdFits(rssCmd', fs)
    BY Zenon, <1>1, <1>5, FreshIs, Carefree, UnderwayFits
  <1>. QED BY Zenon, <1>1, <1>4, <1>6, FreshIs, OperatorMoves DEF ProvisioningInv

LEMMA BundleStartKeeps ==
    ASSUME ProvisioningInv, NEW named \in BOOLEAN, BundleStart(named)
    PROVE  ProvisioningInv' /\ Kept
  <1>. DEFINE more == rss.issued \cup {fresh}
              issued == [rss EXCEPT !.issued = more]
              both == issued.bound \cup {<<fresh, Identified>>}
  <1>1. /\ UNCHANGED <<fs, clearing>> /\ fresh' = fresh + 1 /\ Fresh
        /\ rss' = IF named THEN [issued EXCEPT !.bound = both] ELSE issued
        /\ rssCmd' = Underway("bundle", "bundle", fresh)
        /\ named => Present("profile") \/ Readable("prepared")
    BY Zenon DEF BundleStart
  <1>2. rss \in OperatorRecords /\ rss.issued \subseteq Int /\ rss.bound \in SUBSET (Int \X Int)
    BY Zenon DEF ProvisioningInv, ProvisioningTypes, OperatorRecords
  <1>3. more \in SUBSET Int
    BY Zenon, <1>1, <1>2, FreshIs
  <1>. HIDE DEF more
  <1>4. /\ issued \in OperatorRecords /\ issued.enrolled = rss.enrolled /\ issued.bound = rss.bound
        /\ issued.owner = rss.owner
    BY ZenonT(30), <1>2, <1>3, OperatorSet
  <1>5. "bundle" \in RssOps /\ "bundle" # "none"
    BY Zenon DEF RssOps
  <1>6. CmdFits(rssCmd', fs)
    BY Zenon, <1>1, <1>5, FreshIs, Carefree, UnderwayFits
  <1>. HIDE DEF issued
  <1>7. CASE ~named
    BY Zenon, <1>1, <1>4, <1>6, <1>7, FreshIs, OperatorMoves DEF ProvisioningInv
  <1>8. CASE named
    <2>1. FileTypes(fs)
      BY Zenon DEF ProvisioningInv, ProvisioningTypes
    <2>2. Present("profile") => fs["profile"] \in ProfileRecords
      BY Zenon, <2>1 DEF FileTypes, Present
    <2>3. Readable("prepared") => fs["prepared"] \in PreparedRecords
      BY Zenon, <2>1 DEF FileTypes, Readable
    <2>4. Identified \in Int
      BY Zenon, <1>1, <1>8, <2>2, <2>3 DEF Identified, ProfileRecords, PreparedRecords
    <2>5. both \in SUBSET (Int \X Int)
      BY <1>1, <1>2, <1>4, <2>4, FreshIs
    <2>6. BoundTo(fs, both)
      <3>1. BoundTo(fs, rss.bound)
        BY Zenon DEF ProvisioningInv
      <3>2. IF In(fs, "profile") THEN fs["profile"].conn = <<fresh, Identified>>[2]
                                 ELSE Filled(fs, "prepared") /\ fs["prepared"].conn = <<fresh, Identified>>[2]
        BY Zenon, <1>1, <1>8 DEF Identified, Present, Readable, In, Filled
      <3>. QED BY Zenon, <1>4, <3>1, <3>2 DEF BoundTo
    <2>. HIDE DEF both
    <2>7. /\ rss' \in OperatorRecords /\ rss'.enrolled = rss.enrolled /\ rss'.bound = both
          /\ rss'.owner = rss.owner
      BY ZenonT(30), <1>1, <1>4, <1>8, <2>5, OperatorSetMore
    <2>. QED BY Zenon, <1>1, <1>6, <2>6, <2>7, FreshIs, OperatorMoves DEF ProvisioningInv
  <1>. QED BY Zenon, <1>7, <1>8

LEMMA DaemonEnrollsKeeps == ASSUME ProvisioningInv, DaemonEnrolls PROVE ProvisioningInv' /\ Kept
  <1>. DEFINE more == rss.enrolled \cup {Me}
  <1>1. /\ UNCHANGED <<fs, clearing, rssCmd, fresh>> /\ In(fs, "profile")
        /\ rss' = [rss EXCEPT !.enrolled = more]
    BY Zenon DEF DaemonEnrolls, LoadsFile, Present, In
  <1>2. /\ rss \in OperatorRecords /\ rss.enrolled \subseteq PreparedRecords
        /\ FileTypes(fs) /\ fresh \in 1 .. MaxFresh + 1
    BY Zenon DEF ProvisioningInv, ProvisioningTypes, OperatorRecords
  <1>3. fs["profile"] \in ProfileRecords
    BY Zenon, <1>1, <1>2 DEF FileTypes, In
  <1>4. Me \in PreparedRecords
    BY Zenon, <1>3 DEF Me, ProfileRecords, PreparedRecords
  <1>5. more \in SUBSET PreparedRecords /\ rss.enrolled \subseteq more
    BY Zenon, <1>2, <1>4
  <1>. HIDE DEF more
  <1>6. /\ rss' \in OperatorRecords /\ rss'.enrolled = more /\ rss'.bound = rss.bound
        /\ rss'.owner = rss.owner
    BY ZenonT(30), <1>1, <1>2, <1>5, OperatorSet
  <1>. QED BY Zenon, <1>1, <1>2, <1>5, <1>6, OperatorMoves DEF ProvisioningInv

LEMMA ExpireKeeps ==
    ASSUME ProvisioningInv, NEW t \in rss.issued, Expire(t)
    PROVE  ProvisioningInv' /\ Kept
  <1>. DEFINE more == rss.dead \cup {t}
  <1>1. UNCHANGED <<fs, clearing, rssCmd, fresh>> /\ rss' = [rss EXCEPT !.dead = more]
    BY Zenon DEF Expire
  <1>2. /\ rss \in OperatorRecords /\ rss.dead \subseteq Int /\ rss.issued \subseteq Int
        /\ fresh \in 1 .. MaxFresh + 1
    BY Zenon DEF ProvisioningInv, ProvisioningTypes, OperatorRecords
  <1>3. more \in SUBSET Int
    BY Zenon, <1>2
  <1>. HIDE DEF more
  <1>4. /\ rss' \in OperatorRecords /\ rss'.enrolled = rss.enrolled /\ rss'.bound = rss.bound
        /\ rss'.owner = rss.owner
    BY Zenon, <1>1, <1>2, <1>3, OperatorSet
  <1>. QED BY Zenon, <1>1, <1>2, <1>4, OperatorMoves DEF ProvisioningInv

\* The operator remembers material that is staged on disk
LEMMA OwnerPostKeeps == ASSUME ProvisioningInv, OwnerPost PROVE ProvisioningInv' /\ Kept
  <1>1. /\ rssCmd.pc = "post" /\ UNCHANGED <<fs, clearing, fresh>>
        /\ CmdGoto("admin") \/ Stop
        /\ rss' = [rss EXCEPT !.owner = fs["pending"]]
    BY Zenon DEF OwnerPost, CmdAt
  <1>2. rss \in OperatorRecords /\ FileTypes(fs) /\ fresh \in 1 .. MaxFresh + 1 /\ CmdFits(rssCmd, fs)
    BY Zenon DEF ProvisioningInv, ProvisioningTypes
  <1>3. Filled(fs, "pending")
    BY Zenon, <1>1, <1>2 DEF CmdFits, Needs
  <1>4. fs["pending"] \in -1 .. MaxFresh
    BY <1>2, <1>3, NoContent DEF FileTypes, Filled, Numbers, RssFiles
  <1>5. /\ rss' \in OperatorRecords /\ rss'.enrolled = rss.enrolled /\ rss'.bound = rss.bound
        /\ rss'.owner = fs["pending"]
    BY ZenonT(30), <1>1, <1>2, <1>4, OperatorSetMore
  <1>6. OwnerHeld(fs, rss'.owner)
    BY Zenon, <1>5 DEF OwnerHeld
  <1>7. ~rssCmd.open /\ rssCmd.pc # "none" /\ "admin" \in RssPcs
    BY Zenon, <1>1, ClosedAt DEF CreatesAt, RssPcs
  <1>8. Needs("admin", fs)
    BY Zenon, <1>3 DEF Needs, BeforeProfile
  <1>9. CmdFits(rssCmd', fs)
    <2>1. CASE CmdGoto("admin")
      BY Zenon, <1>2, <1>7, <1>8, <2>1, GotoFits DEF CmdGoto
    <2>2. CASE Stop
      BY Zenon, <2>2, NoCmdFits DEF Stop
    <2>. QED BY Zenon, <1>1, <2>1, <2>2
  <1>. QED BY Zenon, <1>1, <1>2, <1>5, <1>6, <1>9, OperatorMoves DEF ProvisioningInv

-----------------------------------------------------------------------------
(* Files created exclusively                                                 *)

LEMMA FilesMove ==
    ASSUME ProvisioningInv, FileTypes(fs'), OnDisk(fs'), BoundTo(fs', rss.bound), OwnerHeld(fs', rss.owner),
           Clears(clearing', fs', rss.enrolled), Kept, CmdFits(rssCmd', fs'), rss' = rss,
           fresh' \in 1 .. MaxFresh + 1
    PROVE  ProvisioningInv'
  BY Zenon DEF ProvisioningInv, ProvisioningTypes

LEMMA OneCreated ==
    ASSUME NEW f \in RssFiles, NEW g \in RssFiles, NEW pc, CreatesAt(pc, f), CreatesAt(pc, g)
    PROVE  f = g /\ f # "profile" /\ pc # "none"
  BY Zenon DEF CreatesAt

\* A file that is not the profile is filled or created: the daemon is not concerned
LEMMA ClearsStay ==
    ASSUME NEW c, NEW known, NEW d, NEW e, e["profile"] = d["profile"], Clears(c, d, known)
    PROVE  Clears(c, e, known)
  BY Zenon DEF Clears, In

LEMMA CreatesKeep ==
    ASSUME ProvisioningInv, NEW f \in RssFiles, CreatesAt(rssCmd.pc, f), fs[f] = Absent,
           fs' = [fs EXCEPT ![f] = Torn], rssCmd' = [rssCmd EXCEPT !.open = TRUE],
           UNCHANGED <<rss, clearing>>, fresh' = fresh
    PROVE  ProvisioningInv' /\ Kept
  <1>1. /\ FileTypes(fs) /\ DOMAIN fs = RssFiles /\ fresh \in 1 .. MaxFresh + 1
        /\ CmdFits(rssCmd, fs) /\ Clears(clearing, fs, rss.enrolled)
        /\ OnDisk(fs) /\ BoundTo(fs, rss.bound) /\ OwnerHeld(fs, rss.owner)
        /\ rss.owner \in Int
    BY NoContent DEF ProvisioningInv, ProvisioningTypes, FileTypes, OperatorRecords
  <1>2. DOMAIN fs' = RssFiles /\ fs'[f] = Torn /\ \A g \in RssFiles : g # f => fs'[g] = fs[g]
    BY Zenon, <1>1, FileSet
  <1>3. f # "profile" /\ "profile" \in RssFiles /\ fs'["profile"] = fs["profile"]
    BY Zenon, <1>2 DEF CreatesAt, RssFiles
  <1>4. \A g \in RssFiles : /\ Filled(fs', g) <=> Filled(fs, g)
                            /\ Filled(fs, g) => fs'[g] = fs[g]
                            /\ g # f => (In(fs', g) <=> In(fs, g))
    BY Zenon, <1>2 DEF Filled, In
  <1>5. FileTypes(fs')
    <2>1. \A g \in RssFiles \ {"prepared", "profile"} : fs'[g] \in {Absent, Torn} \cup Numbers
      BY Zenon, <1>1, <1>2 DEF FileTypes
    <2>2. fs'["prepared"] \in {Absent, Torn} \cup PreparedRecords
      BY Zenon, <1>1, <1>2 DEF FileTypes, RssFiles
    <2>3. Filled(fs', "pending") => fs'["pending"] >= 1
      BY Zenon, <1>1, <1>4 DEF FileTypes, RssFiles
    <2>. QED BY Zenon, <1>1, <1>2, <1>3, <2>1, <2>2, <2>3 DEF FileTypes
  <1>6. OnDisk(fs')
    <2>1. f = "token" => Filled(fs, "state")
      BY Zenon, <1>1 DEF CreatesAt, CmdFits, Needs
    <2>2. {"key", "prepared", "profile", "token", "state"} \subseteq RssFiles
      BY Zenon DEF RssFiles
    <2>3. f # "token" => (In(fs', "token") <=> In(fs, "token"))
      BY Zenon, <1>4, <2>2
    <2>4. Filled(fs', "prepared") => Filled(fs', "key") /\ fs'["prepared"].key = fs'["key"]
      BY Zenon, <1>1, <1>4, <2>2 DEF OnDisk
    <2>. QED BY Zenon, <1>1, <1>3, <1>4, <2>1, <2>2, <2>3, <2>4 DEF OnDisk
  <1>7. BoundTo(fs', rss.bound)
    <2>1. "prepared" \in RssFiles
      BY Zenon DEF RssFiles
    <2>. QED BY Zenon, <1>1, <1>3, <1>4, <2>1 DEF BoundTo
  <1>8. OwnerHeld(fs', rss.owner)
    <2>1. {"pending", "admin"} \subseteq RssFiles /\ rss.owner # Absent /\ rss.owner # Torn
      BY Zenon, <1>1, NoContent DEF RssFiles
    <2>. QED BY Zenon, <1>1, <1>4, <2>1 DEF OwnerHeld, Filled
  <1>9. Needs(rssCmd.pc, fs')
    <2>1. Needs(rssCmd.pc, fs)
      BY Zenon, <1>1 DEF CmdFits
    <2>2. {"key", "prepared", "profile", "token", "state", "pending", "admin"} \subseteq RssFiles
      BY Zenon DEF RssFiles
    <2>3. rssCmd.pc # "show" /\ (rssCmd.pc = "write_state" => f # "token")
          /\ (rssCmd.pc \in {"new_key", "profile"} => f # "prepared") /\ rssCmd.pc # "none"
      BY Zenon DEF CreatesAt
    <2>. QED BY Zenon, <1>2, <1>3, <1>4, <2>1, <2>2, <2>3 DEF Needs
  <1>10. CmdFits(rssCmd', fs')
    <2>. DEFINE cmd == [rssCmd EXCEPT !.open = TRUE]
    <2>1. cmd \in CmdRecords /\ cmd.pc = rssCmd.pc /\ cmd.op = rssCmd.op
      BY Zenon, <1>1, CmdSet DEF CmdFits
    <2>. HIDE DEF cmd
    <2>2. CmdFits(cmd, fs')
      BY Zenon, <1>1, <1>2, <1>9, <2>1 DEF CmdFits, Opened
    <2>. QED BY Zenon, <2>2 DEF cmd
  <1>11. Kept
    <2>1. {"key", "token"} \subseteq RssFiles
      BY Zenon DEF RssFiles
    <2>. QED BY Zenon, <1>3, <1>4, <2>1 DEF Kept, Keeps, In, Filled
  <1>12. Clears(clearing', fs', rss.enrolled)
    BY Zenon, <1>1, <1>3, ClearsStay
  <1>. QED BY Zenon, <1>1, <1>5, <1>6, <1>7, <1>8, <1>10, <1>11, <1>12, FilesMove

\* A file that was created is filled
FillsWell(f, content, next) ==
    fs[f] = Torn =>
        LET e == [fs EXCEPT ![f] = content] IN
        /\ FileTypes(e) /\ OnDisk(e) /\ BoundTo(e, rss.bound) /\ OwnerHeld(e, rss.owner)
        /\ Needs(next, e)

LEMMA WriteNewKeeps ==
    ASSUME ProvisioningInv, NEW f \in RssFiles, CreatesAt(rssCmd.pc, f), NEW content, NEW next \in RssPcs,
           WriteNew(f, content, next), UNCHANGED <<rss, clearing>>,
           ~rssCmd.open => fresh' = fresh, fresh' \in 1 .. MaxFresh + 1,
           FillsWell(f, content, next)
    PROVE  ProvisioningInv' /\ Kept
  <1>1. CASE ~rssCmd.open /\ Stop /\ UNCHANGED fs
    BY Zenon, <1>1, CmdStops
  <1>2. CASE /\ ~rssCmd.open /\ ~Present(f) /\ fs' = [fs EXCEPT ![f] = Torn]
             /\ rssCmd' = [rssCmd EXCEPT !.open = TRUE]
    BY Zenon, <1>2, CreatesKeep DEF Present
  <1>3. CASE /\ rssCmd.open /\ fs' = [fs EXCEPT ![f] = content]
             /\ rssCmd' = IF next = "none" THEN NoCmd ELSE Underway(rssCmd.op, next, rssCmd.tok)
    <2>1. /\ FileTypes(fs) /\ DOMAIN fs = RssFiles /\ CmdFits(rssCmd, fs)
          /\ Clears(clearing, fs, rss.enrolled)
      BY Zenon DEF ProvisioningInv, ProvisioningTypes, FileTypes
    <2>2. fs[f] = Torn
      BY Zenon, <1>3, <2>1, OneCreated DEF CmdFits, Opened
    <2>3. /\ FileTypes(fs') /\ OnDisk(fs') /\ BoundTo(fs', rss.bound) /\ OwnerHeld(fs', rss.owner)
          /\ Needs(next, fs')
      BY Zenon, <1>3, <2>2 DEF FillsWell
    <2>4. \A g \in RssFiles : g # f => fs'[g] = fs[g]
      BY Zenon, <1>3, <2>1, FileSet
    <2>5. f # "profile" /\ {"profile", "key", "token"} \subseteq RssFiles /\ rssCmd.pc # "none"
      BY Zenon, OneCreated DEF RssFiles
    <2>6. Clears(clearing', fs', rss.enrolled)
      BY Zenon, <2>1, <2>4, <2>5, ClearsStay
    <2>7. Kept
      BY Zenon, <2>2, <2>4, <2>5 DEF Kept, Keeps, In, Filled
    <2>8. rssCmd.op \in RssOps /\ rssCmd.op # "none" /\ rssCmd.tok \in 0 .. MaxFresh
      BY Zenon, <2>1, <2>5 DEF CmdFits, CmdRecords
    <2>9. CmdFits(rssCmd', fs')
      <3>1. CASE next = "none"
        BY Zenon, <1>3, <3>1, NoCmdFits
      <3>2. CASE next # "none"
        BY Zenon, <1>3, <2>3, <2>8, <3>2, UnderwayFits
      <3>. QED BY Zenon, <3>1, <3>2
    <2>. QED BY Zenon, <2>3, <2>6, <2>7, <2>9, FilesMove
  <1>. QED BY Zenon, <1>1, <1>2, <1>3 DEF WriteNew

\* Content for a file other than the profile
ContentOf(f, v) ==
    /\ f \in RssFiles /\ f # "profile" /\ v # Absent /\ v # Torn
    /\ IF f = "prepared" THEN v \in PreparedRecords ELSE v \in Numbers
    /\ f = "pending" => v >= 1

Put(e, f, v) == e = [fs EXCEPT ![f] = v]

\* What a filled file other than the profile changes
\* The files e are the files on the disk with f holding v, which they may
FilledWith(e, f, v) ==
    /\ FileTypes(e) /\ Filled(e, f) /\ e[f] = v
    /\ \A g \in RssFiles : g # f => /\ e[g] = fs[g] /\ (Filled(e, g) <=> Filled(fs, g))
                                    /\ (In(e, g) <=> In(fs, g))
    /\ {"key", "prepared", "profile", "token", "state", "pending", "admin"} \subseteq RssFiles
    /\ OnDisk(fs) /\ BoundTo(fs, rss.bound) /\ OwnerHeld(fs, rss.owner)
    /\ rss.owner # Absent /\ rss.owner # Torn
    /\ Needs(rssCmd.pc, fs)

LEMMA Filling ==
    ASSUME ProvisioningInv, NEW f, NEW v, ContentOf(f, v), NEW e, Put(e, f, v)
    PROVE  FilledWith(e, f, v)
  <1>. f \in RssFiles /\ f # "profile" /\ v # Absent /\ v # Torn
    BY Zenon DEF ContentOf
  <1>1. /\ FileTypes(fs) /\ DOMAIN fs = RssFiles /\ rss.owner \in Int
        /\ Needs(rssCmd.pc, fs)
        /\ OnDisk(fs) /\ BoundTo(fs, rss.bound) /\ OwnerHeld(fs, rss.owner)
    BY NoContent DEF ProvisioningInv, ProvisioningTypes, FileTypes, OperatorRecords, CmdFits
  <1>2. DOMAIN e = RssFiles /\ e[f] = v /\ \A g \in RssFiles : g # f => e[g] = fs[g]
    BY Zenon, <1>1, FileSet DEF Put
  <1>3. {"key", "prepared", "profile", "token", "state", "pending", "admin"} \subseteq RssFiles
    BY Zenon DEF RssFiles
  <1>4. \A g \in RssFiles \ {"prepared", "profile"} : e[g] \in {Absent, Torn} \cup Numbers
    BY Zenon, <1>1, <1>2 DEF FileTypes, ContentOf
  <1>5. e["prepared"] \in {Absent, Torn} \cup PreparedRecords /\ e["profile"] = fs["profile"]
    BY Zenon, <1>1, <1>2, <1>3 DEF FileTypes, ContentOf
  <1>6. Filled(e, "pending") => e["pending"] >= 1
    BY Zenon, <1>1, <1>2, <1>3 DEF FileTypes, Filled, ContentOf
  <1>7. FileTypes(e)
    BY Zenon, <1>1, <1>2, <1>4, <1>5, <1>6 DEF FileTypes
  <1>8. Filled(e, f) /\ rss.owner # Absent /\ rss.owner # Torn
    BY Zenon, <1>1, <1>2, NoContent DEF Filled
  <1>. QED BY Zenon, <1>1, <1>2, <1>3, <1>7, <1>8 DEF FilledWith, Filled, In

LEMMA KeyFills ==
    ASSUME ProvisioningInv, NEW v \in Numbers,
           NEW next \in {"prep_record", "profile", "import_profile"},
           next = "profile" => rssCmd.pc = "new_key"
    PROVE  FillsWell("key", v, next)
  <1>. SUFFICES ASSUME fs["key"] = Torn, NEW e, Put(e, "key", v)
                PROVE  /\ FileTypes(e) /\ OnDisk(e) /\ BoundTo(e, rss.bound) /\ OwnerHeld(e, rss.owner)
                       /\ Needs(next, e)
    BY Zenon DEF FillsWell, Put
  <1>1. ContentOf("key", v)
    BY NoContent DEF Numbers, RssFiles, ContentOf
  <1>2. /\ FileTypes(e) /\ Filled(e, "key") /\ e["key"] = v
        /\ \A g \in RssFiles : g # "key" => /\ e[g] = fs[g] /\ (Filled(e, g) <=> Filled(fs, g))
                                            /\ (In(e, g) <=> In(fs, g))
        /\ {"key", "prepared", "profile", "token", "state", "pending", "admin"} \subseteq RssFiles
        /\ OnDisk(fs) /\ BoundTo(fs, rss.bound) /\ OwnerHeld(fs, rss.owner)
        /\ Needs(rssCmd.pc, fs)
    <2>1. FilledWith(e, "key", v)
      BY Zenon, <1>1, Filling
    <2>. QED BY Zenon, <2>1 DEF FilledWith
  <1>3. ~Filled(fs, "key")
    BY Zenon DEF Filled
  <1>4. ~In(fs, "profile") /\ ~Filled(fs, "prepared")
    BY Zenon, <1>2, <1>3 DEF OnDisk
  <1>5. ~In(e, "profile") /\ ~Filled(e, "prepared") /\ e["prepared"] = fs["prepared"]
    BY Zenon, <1>2, <1>4
  <1>6. OnDisk(e)
    BY Zenon, <1>2, <1>5 DEF OnDisk
  <1>7. BoundTo(e, rss.bound)
    BY Zenon, <1>2, <1>4 DEF BoundTo
  <1>8. OwnerHeld(e, rss.owner)
    BY Zenon, <1>2 DEF OwnerHeld
  <1>9. next = "profile" => e["prepared"] # Torn
    BY Zenon, <1>2, <1>5 DEF Needs
  <1>10. Needs(next, e)
    BY Zenon, <1>2, <1>5, <1>9 DEF Needs, BeforeProfile
  <1>. QED BY Zenon, <1>2, <1>6, <1>7, <1>8, <1>10

LEMMA KeysKeep ==
    ASSUME ProvisioningInv, PrepareKey \/ CreateKey \/ ImportKey
    PROVE  ProvisioningInv' /\ Kept
  <1>0. {"prep_record", "profile", "import_profile"} \subseteq RssPcs /\ "key" \in RssFiles
    BY Zenon DEF RssPcs, BeforeProfile, RssFiles
  <1>1. CASE PrepareKey \/ CreateKey
    <2>1. /\ Fresh /\ fresh' = IF rssCmd.open THEN fresh + 1 ELSE fresh
          /\ UNCHANGED <<rss, clearing>> /\ rssCmd.pc \in {"prep_key", "new_key"}
          /\ WriteNew("key", fresh, IF rssCmd.pc = "new_key" THEN "profile" ELSE "prep_record")
      BY Zenon, <1>1 DEF PrepareKey, CreateKey, Private, CmdAt
    <2>. DEFINE next == IF rssCmd.pc = "new_key" THEN "profile" ELSE "prep_record"
    <2>2. fresh \in Numbers /\ fresh' \in 1 .. MaxFresh + 1 /\ (~rssCmd.open => fresh' = fresh)
      BY Zenon, <2>1, FreshIs
    <2>3. CreatesAt(rssCmd.pc, "key")
      BY Zenon, <2>1 DEF CreatesAt
    <2>4. /\ next \in {"prep_record", "profile", "import_profile"}
          /\ next = "profile" => rssCmd.pc = "new_key"
      BY Zenon
    <2>. HIDE DEF next
    <2>5. FillsWell("key", fresh, next)
      BY Zenon, <2>2, <2>4, KeyFills
    <2>6. next \in RssPcs /\ WriteNew("key", fresh, next)
      BY Zenon, <1>0, <2>1, <2>4 DEF next
    <2>. QED BY Zenon, <1>0, <2>1, <2>2, <2>3, <2>5, <2>6, WriteNewKeeps
  <1>2. CASE ImportKey
    <2>1. /\ WriteNew("key", rss.exported, "import_profile") /\ fresh' = fresh
          /\ UNCHANGED <<rss, clearing>> /\ rssCmd.pc = "import_key"
      BY Zenon, <1>2 DEF ImportKey, Private, CmdAt
    <2>2. rss.exported \in Numbers /\ fresh' \in 1 .. MaxFresh + 1
      BY <2>1, NoContent DEF ProvisioningInv, ProvisioningTypes, OperatorRecords, Numbers
    <2>3. CreatesAt(rssCmd.pc, "key") /\ "import_profile" # "profile"
      BY Zenon, <2>1 DEF CreatesAt
    <2>4. FillsWell("key", rss.exported, "import_profile")
      BY Zenon, <2>2, <2>3, KeyFills
    <2>. QED BY Zenon, <1>0, <2>1, <2>2, <2>3, <2>4, WriteNewKeeps
  <1>. QED BY Zenon, <1>1, <1>2

LEMMA RecordFills ==
    ASSUME ProvisioningInv, rssCmd.pc = "prep_record", Fresh
    PROVE  FillsWell("prepared", [conn |-> fresh, key |-> fs["key"]], "none")
  <1>. DEFINE v == [conn |-> fresh, key |-> fs["key"]]
  <1>. SUFFICES ASSUME fs["prepared"] = Torn, NEW e, Put(e, "prepared", v)
                PROVE  /\ FileTypes(e) /\ OnDisk(e) /\ BoundTo(e, rss.bound) /\ OwnerHeld(e, rss.owner)
                       /\ Needs("none", e)
    BY Zenon DEF FillsWell, Put
  <1>1. Filled(fs, "key") /\ fs["key"] \in Int
    BY NoContent DEF ProvisioningInv, CmdFits, Needs, ProvisioningTypes, FileTypes, Filled, Numbers, RssFiles
  <1>2. v \in PreparedRecords /\ v.key = fs["key"]
    BY Zenon, <1>1, FreshIs DEF PreparedRecords
  <1>. HIDE DEF v
  <1>3. ContentOf("prepared", v)
    BY Zenon, <1>2, NoContent DEF RssFiles, ContentOf
  <1>4. /\ FileTypes(e) /\ e["prepared"] = v
        /\ \A g \in RssFiles : g # "prepared" => /\ e[g] = fs[g] /\ (Filled(e, g) <=> Filled(fs, g))
                                                 /\ (In(e, g) <=> In(fs, g))
        /\ {"key", "prepared", "profile", "token", "state", "pending", "admin"} \subseteq RssFiles
        /\ OnDisk(fs) /\ BoundTo(fs, rss.bound) /\ OwnerHeld(fs, rss.owner)
    <2>1. FilledWith(e, "prepared", v)
      BY Zenon, <1>3, Filling
    <2>. QED BY Zenon, <2>1 DEF FilledWith
  <1>5. ~Filled(fs, "prepared")
    BY Zenon DEF Filled
  <1>6. OnDisk(e)
    BY Zenon, <1>1, <1>2, <1>4 DEF OnDisk
  <1>7. BoundTo(e, rss.bound)
    BY Zenon, <1>4, <1>5 DEF BoundTo
  <1>8. OwnerHeld(e, rss.owner)
    BY Zenon, <1>4 DEF OwnerHeld
  <1>9. Needs("none", e)
    BY Zenon, Carefree
  <1>. QED BY Zenon, <1>4, <1>6, <1>7, <1>8, <1>9

LEMMA PrepareRecordKeeps == ASSUME ProvisioningInv, PrepareRecord PROVE ProvisioningInv' /\ Kept
  <1>. DEFINE v == [conn |-> fresh, key |-> fs["key"]]
  <1>1. /\ Fresh /\ fresh' = IF rssCmd.open THEN fresh + 1 ELSE fresh
        /\ UNCHANGED <<rss, clearing>> /\ rssCmd.pc = "prep_record"
        /\ WriteNew("prepared", v, "none")
    BY Zenon DEF PrepareRecord, Private, CmdAt
  <1>2. fresh' \in 1 .. MaxFresh + 1 /\ (~rssCmd.open => fresh' = fresh)
    BY Zenon, <1>1, FreshIs
  <1>3. CreatesAt(rssCmd.pc, "prepared") /\ "prepared" \in RssFiles /\ "none" \in RssPcs
    BY Zenon, <1>1 DEF CreatesAt, RssFiles, RssPcs
  <1>4. FillsWell("prepared", v, "none")
    BY Zenon, <1>1, RecordFills
  <1>. HIDE DEF v
  <1>. QED BY Zenon, <1>1, <1>2, <1>3, <1>4, WriteNewKeeps

\* The receipt, the public state of the enrollment and the token
LEMMA SetupFills ==
    ASSUME ProvisioningInv, NEW f \in {"receipt", "state", "token"}, CreatesAt(rssCmd.pc, f), NEW v \in Numbers,
           NEW next, f = "receipt" => next = "none", f = "state" => next = "store_token",
           f = "token" => next = "configure"
    PROVE  FillsWell(f, v, next)
  <1>. SUFFICES ASSUME fs[f] = Torn, NEW e, Put(e, f, v)
                PROVE  /\ FileTypes(e) /\ OnDisk(e) /\ BoundTo(e, rss.bound) /\ OwnerHeld(e, rss.owner)
                       /\ Needs(next, e)
    BY Zenon DEF FillsWell, Put
  <1>1. ContentOf(f, v) /\ f \notin {"profile", "prepared", "pending", "key", "admin"}
    BY NoContent DEF Numbers, RssFiles, ContentOf
  <1>2. /\ FileTypes(e) /\ Filled(e, f) /\ e[f] = v
        /\ \A g \in RssFiles : g # f => /\ e[g] = fs[g] /\ (Filled(e, g) <=> Filled(fs, g))
                                        /\ (In(e, g) <=> In(fs, g))
        /\ {"key", "prepared", "profile", "token", "state", "pending", "admin"} \subseteq RssFiles
        /\ OnDisk(fs) /\ BoundTo(fs, rss.bound) /\ OwnerHeld(fs, rss.owner)
        /\ Needs(rssCmd.pc, fs)
    <2>1. FilledWith(e, f, v)
      BY Zenon, <1>1, Filling
    <2>. QED BY Zenon, <2>1 DEF FilledWith
  <1>3. /\ e["key"] = fs["key"] /\ e["profile"] = fs["profile"] /\ e["prepared"] = fs["prepared"]
        /\ e["pending"] = fs["pending"] /\ e["admin"] = fs["admin"]
    BY Zenon, <1>1, <1>2
  <1>4. f = "token" => Filled(fs, "state") /\ Filled(e, "state") /\ ~In(fs, "profile")
    BY Zenon, <1>2 DEF CreatesAt, Needs, BeforeProfile
  <1>5. f = "state" => Filled(e, "state") /\ ~In(fs, "profile")
    BY Zenon, <1>2 DEF CreatesAt, Needs, BeforeProfile
  <1>6. f = "receipt" => (In(e, "token") <=> In(fs, "token")) /\ (Filled(e, "state") <=> Filled(fs, "state"))
    BY Zenon, <1>2
  <1>7. OnDisk(e)
    <2>1. ~In(e, "profile") /\ In(e, "token") => Filled(e, "state")
      BY Zenon, <1>2, <1>3, <1>4, <1>5, <1>6 DEF OnDisk, In
    <2>. QED BY Zenon, <1>2, <1>3, <2>1 DEF OnDisk, In, Filled
  <1>8. BoundTo(e, rss.bound) /\ OwnerHeld(e, rss.owner)
    BY Zenon, <1>2, <1>3 DEF BoundTo, OwnerHeld, In, Filled
  <1>9. Needs(next, e)
    BY Zenon, <1>3, <1>4, <1>5 DEF Needs, BeforeProfile, In
  <1>. QED BY Zenon, <1>2, <1>7, <1>8, <1>9

LEMMA SetupKeeps ==
    ASSUME ProvisioningInv, CheckoutWrite \/ WriteRssState \/ StoreToken
    PROVE  ProvisioningInv' /\ Kept
  <1>1. fresh' = fresh /\ UNCHANGED <<rss, clearing>>
    BY Zenon DEF CheckoutWrite, WriteRssState, StoreToken, Private
  <1>2. /\ fresh' \in 1 .. MaxFresh + 1 /\ 0 \in Numbers /\ rssCmd.tok \in Numbers
        /\ {"none", "store_token", "configure"} \subseteq RssPcs /\ {"receipt", "state", "token"} \subseteq RssFiles
    BY <1>1, NoContent DEF ProvisioningInv, ProvisioningTypes, CmdFits, CmdRecords, Numbers, RssPcs,
                           BeforeProfile, RssFiles
  <1>3. CASE CheckoutWrite
    <2>1. CreatesAt(rssCmd.pc, "receipt") /\ WriteNew("receipt", 0, "none")
      BY Zenon, <1>3 DEF CheckoutWrite, CmdAt, CreatesAt
    <2>2. FillsWell("receipt", 0, "none")
      BY Zenon, <1>2, <2>1, SetupFills
    <2>. QED BY Zenon, <1>1, <1>2, <2>1, <2>2, WriteNewKeeps
  <1>4. CASE WriteRssState
    <2>1. CreatesAt(rssCmd.pc, "state") /\ WriteNew("state", 0, "store_token")
      BY Zenon, <1>4 DEF WriteRssState, CmdAt, CreatesAt
    <2>2. FillsWell("state", 0, "store_token")
      BY Zenon, <1>2, <2>1, SetupFills
    <2>. QED BY Zenon, <1>1, <1>2, <2>1, <2>2, WriteNewKeeps
  <1>5. CASE StoreToken
    <2>1. CreatesAt(rssCmd.pc, "token") /\ WriteNew("token", rssCmd.tok, "configure")
      BY Zenon, <1>5 DEF StoreToken, CmdAt, CreatesAt
    <2>2. FillsWell("token", rssCmd.tok, "configure")
      BY Zenon, <1>2, <2>1, SetupFills
    <2>. QED BY Zenon, <1>1, <1>2, <2>1, <2>2, WriteNewKeeps
  <1>. QED BY Zenon, <1>3, <1>4, <1>5

\* The owner's staged material and the administrator key
LEMMA OwnerFills ==
    ASSUME ProvisioningInv, NEW f \in {"pending", "admin"}, NEW v \in Numbers, v >= 1,
           NEW next, f = "pending" => next = "post", f = "admin" => next = "show" /\ v = fs["pending"]
    PROVE  FillsWell(f, v, next)
  <1>. SUFFICES ASSUME fs[f] = Torn, NEW e, Put(e, f, v)
                PROVE  /\ FileTypes(e) /\ OnDisk(e) /\ BoundTo(e, rss.bound) /\ OwnerHeld(e, rss.owner)
                       /\ Needs(next, e)
    BY Zenon DEF FillsWell, Put
  <1>1. ContentOf(f, v) /\ f \notin {"profile", "prepared", "key", "token", "state"}
    BY NoContent DEF Numbers, RssFiles, ContentOf
  <1>2. /\ FileTypes(e) /\ Filled(e, f) /\ e[f] = v
        /\ \A g \in RssFiles : g # f => /\ e[g] = fs[g] /\ (Filled(e, g) <=> Filled(fs, g))
                                        /\ (In(e, g) <=> In(fs, g))
        /\ {"key", "prepared", "profile", "token", "state", "pending", "admin"} \subseteq RssFiles
        /\ OnDisk(fs) /\ BoundTo(fs, rss.bound) /\ OwnerHeld(fs, rss.owner)
        /\ rss.owner # Torn
    <2>1. FilledWith(e, f, v)
      BY Zenon, <1>1, Filling
    <2>. QED BY Zenon, <2>1 DEF FilledWith
  <1>3. /\ e["key"] = fs["key"] /\ e["profile"] = fs["profile"] /\ e["prepared"] = fs["prepared"]
        /\ e["token"] = fs["token"] /\ e["state"] = fs["state"]
    BY Zenon, <1>1, <1>2
  <1>4. OnDisk(e) /\ BoundTo(e, rss.bound)
    BY ZenonT(30), <1>2, <1>3 DEF OnDisk, BoundTo, In, Filled
  <1>5. OwnerHeld(e, rss.owner)
    <2>1. (f = "pending" => e["admin"] = fs["admin"]) /\ (f = "admin" => e["pending"] = fs["pending"])
      BY Zenon, <1>2
    <2>2. f = "pending" \/ f = "admin"
      BY Zenon
    <2>. QED BY Zenon, <1>2, <2>1, <2>2 DEF OwnerHeld
  <1>6. Needs(next, e)
    BY Zenon, <1>2 DEF Needs, BeforeProfile
  <1>. QED BY Zenon, <1>2, <1>4, <1>5, <1>6

LEMMA OwnerKeeps == ASSUME ProvisioningInv, OwnerMaterial \/ OwnerKey PROVE ProvisioningInv' /\ Kept
  <1>1. /\ {"pending", "admin"} \subseteq RssFiles /\ {"post", "show"} \subseteq RssPcs
        /\ fresh \in 1 .. MaxFresh + 1 /\ UNCHANGED <<rss, clearing>>
    BY Zenon DEF RssFiles, RssPcs, ProvisioningInv, ProvisioningTypes, OwnerMaterial, OwnerKey, Private
  <1>2. CASE OwnerMaterial
    <2>1. /\ Fresh /\ fresh' = IF rssCmd.open THEN fresh + 1 ELSE fresh
          /\ CreatesAt(rssCmd.pc, "pending") /\ WriteNew("pending", fresh, "post")
      BY Zenon, <1>2 DEF OwnerMaterial, CmdAt, CreatesAt
    <2>2. /\ fresh \in Numbers /\ fresh >= 1 /\ fresh' \in 1 .. MaxFresh + 1
          /\ (~rssCmd.open => fresh' = fresh)
      BY Zenon, <2>1, FreshIs
    <2>3. FillsWell("pending", fresh, "post")
      BY Zenon, <2>2, OwnerFills
    <2>. QED BY Zenon, <1>1, <2>1, <2>2, <2>3, WriteNewKeeps
  <1>3. CASE OwnerKey
    <2>1. /\ fresh' = fresh /\ rssCmd.pc = "admin" /\ CreatesAt(rssCmd.pc, "admin")
          /\ WriteNew("admin", fs["pending"], "show")
      BY Zenon, <1>3 DEF OwnerKey, CmdAt, CreatesAt
    <2>2. Filled(fs, "pending")
      BY Zenon, <2>1 DEF ProvisioningInv, CmdFits, Needs
    <2>3. fs["pending"] \in Numbers /\ fs["pending"] >= 1
      BY Zenon, <2>2 DEF ProvisioningInv, ProvisioningTypes, FileTypes, Filled, RssFiles
    <2>4. FillsWell("admin", fs["pending"], "show")
      BY Zenon, <2>3, OwnerFills
    <2>. QED BY Zenon, <1>1, <2>1, <2>4, WriteNewKeeps
  <1>. QED BY Zenon, <1>2, <1>3

-----------------------------------------------------------------------------
(* Files removed and replaced                                                *)

\* The command replaces or removes one file other than the profile
LEMMA Replacing ==
    ASSUME ProvisioningInv, NEW f \in RssFiles, f # "profile", NEW v, Put(fs', f, v)
    PROVE  /\ fs'[f] = v /\ \A g \in RssFiles : g # f => fs'[g] = fs[g]
           /\ DOMAIN fs' = RssFiles
           /\ {"key", "prepared", "profile", "token", "state", "pending", "admin", "consumed"} \subseteq RssFiles
           /\ OnDisk(fs) /\ BoundTo(fs, rss.bound) /\ OwnerHeld(fs, rss.owner)
           /\ Clears(clearing, fs', rss.enrolled)
           /\ CmdFits(rssCmd, fs) /\ FileTypes(fs) /\ fresh \in 1 .. MaxFresh + 1
  <1>1. /\ FileTypes(fs) /\ DOMAIN fs = RssFiles /\ CmdFits(rssCmd, fs) /\ fresh \in 1 .. MaxFresh + 1
        /\ OnDisk(fs) /\ BoundTo(fs, rss.bound) /\ OwnerHeld(fs, rss.owner)
        /\ Clears(clearing, fs, rss.enrolled)
    BY Zenon DEF ProvisioningInv, ProvisioningTypes, FileTypes
  <1>2. DOMAIN fs' = RssFiles /\ fs'[f] = v /\ \A g \in RssFiles : g # f => fs'[g] = fs[g]
    BY Zenon, <1>1, FileSet DEF Put
  <1>3. {"key", "prepared", "profile", "token", "state", "pending", "admin", "consumed"} \subseteq RssFiles
    BY Zenon DEF RssFiles
  <1>4. fs'["profile"] = fs["profile"]
    BY Zenon, <1>2, <1>3
  <1>5. Clears(clearing, fs', rss.enrolled)
    BY Zenon, <1>1, <1>4, ClearsStay
  <1>. QED BY Zenon, <1>1, <1>2, <1>3, <1>5

\* The state goes when a profile is written, or when no token was stored
LEMMA StateGoes ==
    ASSUME ProvisioningInv, fs' = [fs EXCEPT !["state"] = Absent],
           In(fs, "profile") \/ ~In(fs, "token"), CmdFits(rssCmd', fs'),
           UNCHANGED <<rss, clearing, fresh>>
    PROVE  ProvisioningInv' /\ Kept
  <1>0. "state" \in RssFiles /\ "state" # "profile"
    BY Zenon DEF RssFiles
  <1>1. /\ fs'["state"] = Absent /\ \A g \in RssFiles : g # "state" => fs'[g] = fs[g]
        /\ DOMAIN fs' = RssFiles
        /\ {"key", "prepared", "profile", "token", "state", "pending", "admin", "consumed"} \subseteq RssFiles
        /\ OnDisk(fs) /\ BoundTo(fs, rss.bound) /\ OwnerHeld(fs, rss.owner)
        /\ Clears(clearing, fs', rss.enrolled) /\ FileTypes(fs) /\ fresh \in 1 .. MaxFresh + 1
    BY Zenon, <1>0, Replacing DEF Put
  <1>2. /\ fs'["key"] = fs["key"] /\ fs'["profile"] = fs["profile"] /\ fs'["prepared"] = fs["prepared"]
        /\ fs'["token"] = fs["token"] /\ fs'["pending"] = fs["pending"] /\ fs'["admin"] = fs["admin"]
    BY Zenon, <1>1
  <1>3. FileTypes(fs')
    BY Zenon, <1>1, <1>2 DEF FileTypes, Filled
  <1>4. OnDisk(fs') /\ BoundTo(fs', rss.bound) /\ OwnerHeld(fs', rss.owner)
    BY Zenon, <1>1, <1>2 DEF OnDisk, BoundTo, OwnerHeld, In, Filled
  <1>5. Kept
    BY Zenon, <1>2 DEF Kept, Keeps, In, Filled
  <1>. QED BY Zenon, <1>1, <1>3, <1>4, <1>5, FilesMove

\* The prepared record goes when its connection is in the profile
LEMMA PreparedGoes ==
    ASSUME ProvisioningInv, fs' = [fs EXCEPT !["prepared"] = Absent], In(fs, "profile"), CmdFits(rssCmd', fs'),
           UNCHANGED <<rss, clearing, fresh>>
    PROVE  ProvisioningInv' /\ Kept
  <1>0. "prepared" \in RssFiles /\ "prepared" # "profile"
    BY Zenon DEF RssFiles
  <1>1. /\ fs'["prepared"] = Absent /\ \A g \in RssFiles : g # "prepared" => fs'[g] = fs[g]
        /\ DOMAIN fs' = RssFiles
        /\ {"key", "prepared", "profile", "token", "state", "pending", "admin", "consumed"} \subseteq RssFiles
        /\ OnDisk(fs) /\ BoundTo(fs, rss.bound) /\ OwnerHeld(fs, rss.owner)
        /\ Clears(clearing, fs', rss.enrolled) /\ FileTypes(fs) /\ fresh \in 1 .. MaxFresh + 1
    BY Zenon, <1>0, Replacing DEF Put
  <1>2. /\ fs'["key"] = fs["key"] /\ fs'["profile"] = fs["profile"] /\ fs'["state"] = fs["state"]
        /\ fs'["token"] = fs["token"] /\ fs'["pending"] = fs["pending"] /\ fs'["admin"] = fs["admin"]
    BY Zenon, <1>1
  <1>3. FileTypes(fs')
    BY Zenon, <1>1, <1>2 DEF FileTypes, Filled
  <1>4. OnDisk(fs') /\ BoundTo(fs', rss.bound) /\ OwnerHeld(fs', rss.owner)
    BY Zenon, <1>1, <1>2 DEF OnDisk, BoundTo, OwnerHeld, In, Filled
  <1>5. Kept
    BY Zenon, <1>2 DEF Kept, Keeps, In, Filled
  <1>. QED BY Zenon, <1>1, <1>3, <1>4, <1>5, FilesMove

\* The staged material goes when the administrator key holds it
LEMMA PendingGoes ==
    ASSUME ProvisioningInv, fs' = [fs EXCEPT !["pending"] = Absent], fs["admin"] = fs["pending"],
           CmdFits(rssCmd', fs'), UNCHANGED <<rss, clearing, fresh>>
    PROVE  ProvisioningInv' /\ Kept
  <1>0. "pending" \in RssFiles /\ "pending" # "profile"
    BY Zenon DEF RssFiles
  <1>1. /\ fs'["pending"] = Absent /\ \A g \in RssFiles : g # "pending" => fs'[g] = fs[g]
        /\ DOMAIN fs' = RssFiles
        /\ {"key", "prepared", "profile", "token", "state", "pending", "admin", "consumed"} \subseteq RssFiles
        /\ OnDisk(fs) /\ BoundTo(fs, rss.bound) /\ OwnerHeld(fs, rss.owner)
        /\ Clears(clearing, fs', rss.enrolled) /\ FileTypes(fs) /\ fresh \in 1 .. MaxFresh + 1
    BY Zenon, <1>0, Replacing DEF Put
  <1>2. /\ fs'["key"] = fs["key"] /\ fs'["profile"] = fs["profile"] /\ fs'["state"] = fs["state"]
        /\ fs'["token"] = fs["token"] /\ fs'["prepared"] = fs["prepared"] /\ fs'["admin"] = fs["admin"]
    BY Zenon, <1>1
  <1>3. FileTypes(fs')
    BY Zenon, <1>1, <1>2 DEF FileTypes, Filled
  <1>4. OnDisk(fs') /\ BoundTo(fs', rss.bound) /\ OwnerHeld(fs', rss.owner)
    BY ZenonT(30), <1>1, <1>2 DEF OnDisk, BoundTo, OwnerHeld, In, Filled
  <1>5. Kept
    BY Zenon, <1>2 DEF Kept, Keeps, In, Filled
  <1>. QED BY Zenon, <1>1, <1>3, <1>4, <1>5, FilesMove

\* An expired token, or one that was not written, is replaced in one step
LEMMA TokenReplaced ==
    ASSUME ProvisioningInv, NEW v \in Numbers, fs' = [fs EXCEPT !["token"] = v], In(fs, "token"),
           CmdFits(rssCmd', fs'), UNCHANGED <<rss, clearing, fresh>>
    PROVE  ProvisioningInv' /\ Kept
  <1>0. "token" \in RssFiles /\ "token" # "profile" /\ v # Absent
    BY NoContent DEF RssFiles, Numbers
  <1>1. /\ fs'["token"] = v /\ \A g \in RssFiles : g # "token" => fs'[g] = fs[g]
        /\ DOMAIN fs' = RssFiles
        /\ {"key", "prepared", "profile", "token", "state", "pending", "admin", "consumed"} \subseteq RssFiles
        /\ OnDisk(fs) /\ BoundTo(fs, rss.bound) /\ OwnerHeld(fs, rss.owner)
        /\ Clears(clearing, fs', rss.enrolled) /\ FileTypes(fs) /\ fresh \in 1 .. MaxFresh + 1
    BY Zenon, <1>0, Replacing DEF Put
  <1>2. /\ fs'["key"] = fs["key"] /\ fs'["profile"] = fs["profile"] /\ fs'["state"] = fs["state"]
        /\ fs'["pending"] = fs["pending"] /\ fs'["prepared"] = fs["prepared"] /\ fs'["admin"] = fs["admin"]
    BY Zenon, <1>1
  <1>3. FileTypes(fs')
    BY Zenon, <1>1, <1>2 DEF FileTypes, Filled
  <1>4. OnDisk(fs') /\ BoundTo(fs', rss.bound) /\ OwnerHeld(fs', rss.owner)
    BY Zenon, <1>1, <1>2 DEF OnDisk, BoundTo, OwnerHeld, In, Filled
  <1>5. Kept
    BY Zenon, <1>0, <1>1, <1>2 DEF Kept, Keeps, In, Filled
  <1>. QED BY Zenon, <1>1, <1>3, <1>4, <1>5, FilesMove

LEMMA CompleteKeeps == ASSUME ProvisioningInv, Complete PROVE ProvisioningInv' /\ Kept
  <1>1. /\ fresh' = fresh /\ UNCHANGED <<rss, clearing>> /\ rssCmd.pc = "complete"
        /\ CmdFits(rssCmd, fs) /\ rssCmd.pc # "none"
    BY Zenon DEF Complete, Private, CmdAt, ProvisioningInv
  <1>2. ~rssCmd.open
    BY Zenon, <1>1, ClosedAt DEF CreatesAt
  <1>3. {"ask", "configure"} \subseteq RssPcs /\ "ask" # "none"
    BY Zenon DEF RssPcs, BeforeProfile
  <1>4. /\ Needs("ask", fs) /\ Needs("ask", fs')
        /\ ~Present("profile") => Needs("configure", fs)
    BY Zenon, Carefree DEF Needs, BeforeProfile, Present, In
  <1>5. CASE Stop /\ UNCHANGED fs
    BY Zenon, <1>1, <1>5, CmdStops
  <1>6. CASE CmdGoto("ask") /\ UNCHANGED fs
    BY Zenon, <1>1, <1>2, <1>3, <1>4, <1>6, CmdGoes
  <1>7. CASE Unlink("state", "ask") /\ ~Present("token")
    <2>1. fs' = [fs EXCEPT !["state"] = Absent] /\ rssCmd' = [rssCmd EXCEPT !.pc = "ask"]
      BY Zenon, <1>3, <1>7 DEF Unlink
    <2>2. CmdFits(rssCmd', fs')
      BY Zenon, <1>1, <1>2, <1>3, <1>4, <2>1, GotoFits
    <2>. QED BY Zenon, <1>1, <1>7, <2>1, <2>2, StateGoes DEF Present, In
  <1>8. CASE CmdGoto("configure") /\ UNCHANGED fs /\ ~Present("profile")
    BY Zenon, <1>1, <1>2, <1>3, <1>4, <1>8, CmdGoes
  <1>. QED BY Zenon, <1>5, <1>6, <1>7, <1>8 DEF Complete

LEMMA BundleKeeps == ASSUME ProvisioningInv, Bundle PROVE ProvisioningInv' /\ Kept
  <1>1. /\ fresh' = fresh /\ UNCHANGED <<rss, clearing>> /\ rssCmd.pc = "bundle"
        /\ CmdFits(rssCmd, fs) /\ rssCmd.pc # "none"
    BY Zenon DEF Bundle, Private, CmdAt, ProvisioningInv
  <1>2. ~rssCmd.open
    BY Zenon, <1>1, ClosedAt DEF CreatesAt
  <1>3. {"write_state", "store_token", "configure"} \subseteq RssPcs
    BY Zenon DEF RssPcs, BeforeProfile
  <1>4. rssCmd.tok \in Numbers
    BY <1>1, NoContent DEF CmdFits, CmdRecords, Numbers
  <1>5. CASE Stop /\ UNCHANGED fs
    BY Zenon, <1>1, <1>5, CmdStops
  <1>6. CASE PendingExpired /\ fs' = [fs EXCEPT !["token"] = rssCmd.tok] /\ Stop
    <2>1. In(fs, "token")
      BY Zenon, <1>6 DEF PendingExpired, Readable, In
    <2>2. CmdFits(rssCmd', fs')
      BY Zenon, <1>6, NoCmdFits DEF Stop
    <2>. QED BY Zenon, <1>1, <1>4, <1>6, <2>1, <2>2, TokenReplaced
  <1>7. CASE ~Present("profile") /\ Readable("state") /\ CmdGoto("store_token") /\ UNCHANGED fs
    <2>1. Needs("store_token", fs)
      BY Zenon, <1>7 DEF Needs, BeforeProfile, Present, Readable, In, Filled
    <2>. QED BY Zenon, <1>1, <1>2, <1>3, <1>7, <2>1, CmdGoes
  <1>8. CASE ~Present("profile") /\ ~Present("token") /\ CmdGoto("write_state") /\ UNCHANGED fs
    <2>1. Needs("write_state", fs)
      BY Zenon, <1>8 DEF Needs, BeforeProfile, Present, In
    <2>. QED BY Zenon, <1>1, <1>2, <1>3, <1>8, <2>1, CmdGoes
  <1>9. CASE /\ ~Present("profile") /\ Present("token") /\ CmdGoto("configure")
             /\ fs' = [fs EXCEPT !["token"] = rssCmd.tok]
    <2>1. DOMAIN fs = RssFiles /\ "token" \in RssFiles /\ "profile" \in RssFiles
      BY Zenon DEF ProvisioningInv, ProvisioningTypes, FileTypes, RssFiles
    <2>2. fs'["profile"] = fs["profile"]
      BY Zenon, <1>9, <2>1, FileSet
    <2>3. Needs("configure", fs')
      BY Zenon, <1>9, <2>2 DEF Needs, BeforeProfile, Present, In
    <2>4. CmdFits(rssCmd', fs')
      BY Zenon, <1>1, <1>2, <1>3, <1>9, <2>3, GotoFits DEF CmdGoto
    <2>. QED BY Zenon, <1>1, <1>4, <1>9, <2>4, TokenReplaced DEF Present, In
  <1>. QED BY Zenon, <1>5, <1>6, <1>7, <1>8, <1>9 DEF Bundle

LEMMA DropsKeep == ASSUME ProvisioningInv, DropState \/ DropPrepared \/ OwnerShow PROVE ProvisioningInv' /\ Kept
  <1>1. fresh' = fresh /\ UNCHANGED <<rss, clearing>> /\ CmdFits(rssCmd, fs)
    BY Zenon DEF DropState, DropPrepared, OwnerShow, Private, ProvisioningInv
  <1>2. CASE DropState
    <2>1. /\ fs' = [fs EXCEPT !["state"] = Absent] /\ rssCmd' = [rssCmd EXCEPT !.pc = "drop_prepared"]
          /\ rssCmd.pc = "drop_state"
      BY Zenon, <1>2 DEF DropState, Unlink, CmdAt
    <2>2. ~rssCmd.open /\ rssCmd.pc # "none" /\ "drop_prepared" \in RssPcs
      BY Zenon, <2>1, ClosedAt DEF CreatesAt, RssPcs
    <2>3. In(fs, "profile") /\ fs'["profile"] = fs["profile"]
      BY Zenon, <1>1, <2>1 DEF CmdFits, Needs, ProvisioningInv, ProvisioningTypes, FileTypes, RssFiles
    <2>4. Needs("drop_prepared", fs')
      BY Zenon, <2>3 DEF Needs, BeforeProfile, In
    <2>5. CmdFits(rssCmd', fs')
      BY Zenon, <1>1, <2>1, <2>2, <2>4, GotoFits
    <2>. QED BY Zenon, <1>1, <2>1, <2>3, <2>5, StateGoes
  <1>3. CASE DropPrepared
    <2>1. fs' = [fs EXCEPT !["prepared"] = Absent] /\ rssCmd' = NoCmd /\ rssCmd.pc = "drop_prepared"
      BY Zenon, <1>3 DEF DropPrepared, Unlink, CmdAt
    <2>2. In(fs, "profile")
      BY Zenon, <1>1, <2>1 DEF CmdFits, Needs
    <2>3. CmdFits(rssCmd', fs')
      BY Zenon, <2>1, NoCmdFits
    <2>. QED BY Zenon, <1>1, <2>1, <2>2, <2>3, PreparedGoes
  <1>4. CASE OwnerShow
    <2>1. CASE Stop /\ UNCHANGED fs
      BY Zenon, <1>1, <2>1, CmdStops
    <2>2. CASE Unlink("pending", "none")
      <3>1. fs' = [fs EXCEPT !["pending"] = Absent] /\ rssCmd' = NoCmd /\ rssCmd.pc = "show"
        BY Zenon, <1>4, <2>2 DEF OwnerShow, Unlink, CmdAt
      <3>2. fs["admin"] = fs["pending"]
        BY Zenon, <1>1, <3>1 DEF CmdFits, Needs
      <3>3. CmdFits(rssCmd', fs')
        BY Zenon, <3>1, NoCmdFits
      <3>. QED BY Zenon, <1>1, <3>1, <3>2, <3>3, PendingGoes
    <2>. QED BY Zenon, <1>4, <2>1, <2>2 DEF OwnerShow
  <1>. QED BY Zenon, <1>2, <1>3, <1>4

-----------------------------------------------------------------------------
(* The profile                                                               *)

\* The first profile: of the prepared connection, or of a new one when no token was bound
LEMMA ProfileWritten ==
    ASSUME ProvisioningInv, NEW p \in ProfileRecords, fs' = [fs EXCEPT !["profile"] = p],
           ~In(fs, "profile"), Filled(fs, "key"),
           \A b \in rss.bound : p.conn = b[2],
           CmdFits(rssCmd', fs'), UNCHANGED <<rss, clearing>>, fresh' \in 1 .. MaxFresh + 1
    PROVE  ProvisioningInv' /\ Kept
  <1>1. /\ FileTypes(fs) /\ DOMAIN fs = RssFiles
        /\ OnDisk(fs) /\ OwnerHeld(fs, rss.owner) /\ Clears(clearing, fs, rss.enrolled)
        /\ {"key", "prepared", "profile", "token", "state", "pending", "admin"} \subseteq RssFiles
    BY Zenon DEF ProvisioningInv, ProvisioningTypes, FileTypes, RssFiles
  <1>2. DOMAIN fs' = RssFiles /\ fs'["profile"] = p /\ \A g \in RssFiles : g # "profile" => fs'[g] = fs[g]
    BY Zenon, <1>1, FileSet
  <1>3. /\ fs'["key"] = fs["key"] /\ fs'["state"] = fs["state"] /\ fs'["token"] = fs["token"]
        /\ fs'["pending"] = fs["pending"] /\ fs'["prepared"] = fs["prepared"] /\ fs'["admin"] = fs["admin"]
    BY Zenon, <1>1, <1>2
  <1>4. FileTypes(fs')
    BY Zenon, <1>1, <1>2, <1>3 DEF FileTypes, Filled
  <1>5. In(fs', "profile")
    BY Zenon, <1>2, NoContent DEF In
  <1>6. OnDisk(fs') /\ BoundTo(fs', rss.bound) /\ OwnerHeld(fs', rss.owner)
    BY Zenon, <1>1, <1>2, <1>3, <1>5 DEF OnDisk, BoundTo, OwnerHeld, In, Filled
  <1>7. Kept
    BY Zenon, <1>3 DEF Kept, Keeps, In, Filled
  <1>8. Clears(clearing', fs', rss.enrolled)
    BY Zenon, <1>1 DEF Clears
  <1>. QED BY Zenon, <1>4, <1>6, <1>7, <1>8, FilesMove

LEMMA WriteProfileKeeps == ASSUME ProvisioningInv, WriteProfile PROVE ProvisioningInv' /\ Kept
  <1>1. UNCHANGED <<rss, clearing>> /\ rssCmd.pc = "profile" /\ CmdFits(rssCmd, fs) /\ CmdGoto("drop_state")
    BY Zenon DEF WriteProfile, Private, CmdAt, ProvisioningInv
  <1>2. ~rssCmd.open /\ rssCmd.pc # "none" /\ "drop_state" \in RssPcs
    BY Zenon, <1>1, ClosedAt DEF CreatesAt, RssPcs
  <1>3. ~In(fs, "profile") /\ Filled(fs, "key") /\ fs["prepared"] # Torn
    BY Zenon, <1>1 DEF CmdFits, Needs, BeforeProfile
  <1>4. /\ FileTypes(fs) /\ DOMAIN fs = RssFiles /\ "profile" \in RssFiles
        /\ fresh \in 1 .. MaxFresh + 1 /\ BoundTo(fs, rss.bound)
    BY Zenon DEF ProvisioningInv, ProvisioningTypes, FileTypes, RssFiles
  <1>5. fs["key"] \in Int
    BY <1>3, <1>4 DEF FileTypes, Filled, RssFiles, Numbers
  <1>6. ASSUME NEW p \in ProfileRecords, fs' = [fs EXCEPT !["profile"] = p]
        PROVE  CmdFits(rssCmd', fs')
    <2>1. fs'["profile"] = p
      BY Zenon, <1>4, <1>6, FileSet
    <2>2. Needs("drop_state", fs')
      BY Zenon, <2>1, NoContent DEF Needs, BeforeProfile, In
    <2>. QED BY Zenon, <1>1, <1>2, <2>2, GotoFits DEF CmdGoto
  <1>7. CASE Present("prepared")
    <2>. DEFINE p == [conn |-> fs["prepared"].conn, key |-> fs["key"], token |-> TRUE]
    <2>1. fs' = [fs EXCEPT !["profile"] = p] /\ fresh' = fresh
      BY Zenon, <1>7 DEF WriteProfile
    <2>2. fs["prepared"] \in PreparedRecords
      BY Zenon, <1>3, <1>4, <1>7 DEF FileTypes, Present
    <2>3. p \in ProfileRecords /\ p.conn = fs["prepared"].conn
      BY Zenon, <1>5, <2>2 DEF ProfileRecords, PreparedRecords
    <2>. HIDE DEF p
    <2>4. \A b \in rss.bound : p.conn = b[2]
      BY Zenon, <1>3, <1>4, <2>3 DEF BoundTo
    <2>5. CmdFits(rssCmd', fs')
      BY Zenon, <1>6, <2>1, <2>3
    <2>. QED BY Zenon, <1>1, <1>3, <1>4, <2>1, <2>3, <2>4, <2>5, ProfileWritten
  <1>8. CASE ~Present("prepared")
    <2>. DEFINE p == [conn |-> fresh, key |-> fs["key"], token |-> TRUE]
    <2>1. fs' = [fs EXCEPT !["profile"] = p] /\ fresh' = fresh + 1 /\ Fresh
      BY Zenon, <1>8 DEF WriteProfile
    <2>2. p \in ProfileRecords /\ fresh' \in 1 .. MaxFresh + 1
      BY Zenon, <1>5, <2>1, FreshIs DEF ProfileRecords
    <2>. HIDE DEF p
    <2>3. \A b \in rss.bound : p.conn = b[2]
      BY Zenon, <1>3, <1>4, <1>8 DEF BoundTo, Filled, Present
    <2>4. CmdFits(rssCmd', fs')
      BY Zenon, <1>6, <2>1, <2>2
    <2>. QED BY Zenon, <1>1, <1>3, <2>1, <2>2, <2>3, <2>4, ProfileWritten
  <1>. QED BY Zenon, <1>7, <1>8

LEMMA ImportProfileKeeps == ASSUME ProvisioningInv, ImportProfile PROVE ProvisioningInv' /\ Kept
  <1>. DEFINE p == [conn |-> fresh, key |-> fs["key"], token |-> FALSE]
  <1>1. /\ UNCHANGED <<rss, clearing>> /\ rssCmd.pc = "import_profile" /\ CmdFits(rssCmd, fs) /\ Stop
        /\ fs' = [fs EXCEPT !["profile"] = p] /\ fresh' = fresh + 1 /\ Fresh
    BY Zenon DEF ImportProfile, Private, CmdAt, ProvisioningInv
  <1>2. ~In(fs, "profile") /\ Filled(fs, "key") /\ ~Filled(fs, "prepared")
    BY Zenon, <1>1 DEF CmdFits, Needs, BeforeProfile
  <1>3. FileTypes(fs) /\ BoundTo(fs, rss.bound)
    BY Zenon DEF ProvisioningInv, ProvisioningTypes
  <1>4. fs["key"] \in Int
    BY <1>2, <1>3 DEF FileTypes, Filled, RssFiles, Numbers
  <1>5. p \in ProfileRecords /\ fresh' \in 1 .. MaxFresh + 1
    BY Zenon, <1>1, <1>4, FreshIs DEF ProfileRecords
  <1>. HIDE DEF p
  <1>6. \A b \in rss.bound : p.conn = b[2]
    BY Zenon, <1>2, <1>3 DEF BoundTo
  <1>7. CmdFits(rssCmd', fs')
    BY Zenon, <1>1, NoCmdFits DEF Stop
  <1>. QED BY Zenon, <1>1, <1>2, <1>5, <1>6, <1>7, ProfileWritten

-----------------------------------------------------------------------------
(* The daemon removes a consumed token                                       *)

\* While the token is cleared, a running command is past the profile: it relies on no
\* file that the daemon touches
LEMMA CmdUndisturbed ==
    ASSUME NEW d, NEW e, CmdFits(rssCmd, d), In(d, "profile"), In(e, "profile"),
           \A g \in RssFiles \ {"token", "consumed", "profile"} : e[g] = d[g]
    PROVE  CmdFits(rssCmd, e)
  <1>1. {"key", "prepared", "state", "pending", "admin"} \subseteq RssFiles \ {"token", "consumed", "profile"}
    BY Zenon DEF RssFiles
  <1>2. /\ e["key"] = d["key"] /\ e["prepared"] = d["prepared"] /\ e["state"] = d["state"]
        /\ e["pending"] = d["pending"] /\ e["admin"] = d["admin"]
    BY Zenon, <1>1
  <1>3. rssCmd.pc \notin BeforeProfile
    BY Zenon DEF CmdFits, Needs
  <1>4. rssCmd.pc # "write_state" /\ rssCmd.pc # "store_token"
    BY Zenon, <1>3 DEF BeforeProfile
  <1>5. Needs(rssCmd.pc, e)
    BY Zenon, <1>2, <1>3, <1>4 DEF CmdFits, Needs, In, Filled
  <1>6. \A f \in RssFiles : CreatesAt(rssCmd.pc, f) => f \in RssFiles \ {"token", "consumed", "profile"}
    BY Zenon, <1>4 DEF CreatesAt
  <1>7. Opened(rssCmd, e)
    BY Zenon, <1>6 DEF CmdFits, Opened
  <1>. QED BY Zenon, <1>5, <1>7 DEF CmdFits

\* Files of the daemon's clean-up: what it writes is the profile it read, without the token
LEMMA ClearStepKeeps == ASSUME ProvisioningInv, ClearStep PROVE ProvisioningInv' /\ Kept
  <1>. DEFINE p == clearing.profile
  <1>0. /\ FileTypes(fs) /\ DOMAIN fs = RssFiles /\ CmdFits(rssCmd, fs) /\ fresh \in 1 .. MaxFresh + 1
        /\ OnDisk(fs) /\ BoundTo(fs, rss.bound) /\ OwnerHeld(fs, rss.owner)
        /\ Clears(clearing, fs, rss.enrolled)
        /\ {"key", "prepared", "profile", "token", "state", "pending", "admin", "consumed"} \subseteq RssFiles
    BY Zenon DEF ProvisioningInv, ProvisioningTypes, FileTypes, RssFiles
  <1>1. UNCHANGED <<rssCmd, rss, fresh>> /\ clearing.pc \in {"rename", "profile", "unlink"}
    BY Zenon DEF ClearStep
  <1>2. clearing # NotClearing
    BY <1>1 DEF NotClearing
  <1>3. /\ clearing \in [pc : {"rename", "profile", "unlink"}, profile : ProfileRecords]
        /\ In(fs, "profile") /\ p.conn = fs["profile"].conn /\ p.key = fs["profile"].key
        /\ [conn |-> p.conn, key |-> p.key] \in rss.enrolled
    BY Zenon, <1>0, <1>2 DEF Clears
  <1>4. p \in ProfileRecords /\ fs["profile"] \in ProfileRecords
    BY Zenon, <1>0, <1>3 DEF FileTypes, In
  <1>5. CASE /\ clearing.pc = "rename"
             /\ fs' = [[fs EXCEPT !["consumed"] = fs["token"]] EXCEPT !["token"] = Absent]
             /\ clearing' = [clearing EXCEPT !.pc = "profile"]
    <2>1. /\ DOMAIN fs' = RssFiles /\ fs'["token"] = Absent /\ fs'["consumed"] = fs["token"]
          /\ \A g \in RssFiles : g # "token" /\ g # "consumed" => fs'[g] = fs[g]
      BY Zenon, <1>0, <1>5
    <2>2. /\ fs'["key"] = fs["key"] /\ fs'["profile"] = fs["profile"] /\ fs'["state"] = fs["state"]
          /\ fs'["pending"] = fs["pending"] /\ fs'["prepared"] = fs["prepared"] /\ fs'["admin"] = fs["admin"]
      BY Zenon, <1>0, <2>1
    <2>3. FileTypes(fs')
      BY Zenon, <1>0, <2>1, <2>2 DEF FileTypes, Filled
    <2>4. OnDisk(fs') /\ BoundTo(fs', rss.bound) /\ OwnerHeld(fs', rss.owner) /\ In(fs', "profile")
      BY Zenon, <1>0, <1>3, <2>1, <2>2 DEF OnDisk, BoundTo, OwnerHeld, In, Filled
    <2>5. Kept
      BY Zenon, <1>3, <2>2 DEF Kept, Keeps, In, Filled
    <2>6. clearing' \in [pc : {"rename", "profile", "unlink"}, profile : ProfileRecords] /\ clearing'.profile = p
      BY Zenon, <1>3, <1>5
    <2>7. Clears(clearing', fs', rss.enrolled)
      BY Zenon, <1>3, <2>2, <2>4, <2>6 DEF Clears
    <2>8. CmdFits(rssCmd, fs')
      BY Zenon, <1>0, <1>3, <2>1, <2>4, CmdUndisturbed
    <2>. QED BY Zenon, <1>0, <1>1, <2>3, <2>4, <2>5, <2>7, <2>8, FilesMove
  <1>6. CASE /\ clearing.pc = "profile"
             /\ fs' = [fs EXCEPT !["profile"] = [clearing.profile EXCEPT !.token = FALSE]]
             /\ clearing' = [clearing EXCEPT !.pc = "unlink"]
    <2>. DEFINE q == [clearing.profile EXCEPT !.token = FALSE]
    <2>1. q \in ProfileRecords /\ q.conn = p.conn /\ q.key = p.key
      BY Zenon, <1>4 DEF ProfileRecords
    <2>2. fs' = [fs EXCEPT !["profile"] = q]
      BY Zenon, <1>6
    <2>. HIDE DEF q
    <2>3. /\ DOMAIN fs' = RssFiles /\ fs'["profile"] = q
          /\ \A g \in RssFiles : g # "profile" => fs'[g] = fs[g]
      BY Zenon, <1>0, <2>2, FileSet
    <2>4. /\ fs'["key"] = fs["key"] /\ fs'["token"] = fs["token"] /\ fs'["state"] = fs["state"]
          /\ fs'["pending"] = fs["pending"] /\ fs'["prepared"] = fs["prepared"] /\ fs'["admin"] = fs["admin"]
      BY Zenon, <1>0, <2>3
    <2>5. FileTypes(fs')
      BY Zenon, <1>0, <2>1, <2>3, <2>4 DEF FileTypes, Filled
    <2>6. In(fs', "profile") /\ fs'["profile"].conn = fs["profile"].conn /\ fs'["profile"].key = fs["profile"].key
      BY Zenon, <1>3, <2>1, <2>3, NoContent DEF In
    <2>7. OnDisk(fs') /\ BoundTo(fs', rss.bound) /\ OwnerHeld(fs', rss.owner)
      BY Zenon, <1>0, <1>3, <2>4, <2>6 DEF OnDisk, BoundTo, OwnerHeld, Filled, In
    <2>8. Kept
      BY Zenon, <2>4, <2>6 DEF Kept, Keeps, In, Filled
    <2>9. clearing' \in [pc : {"rename", "profile", "unlink"}, profile : ProfileRecords] /\ clearing'.profile = p
      BY Zenon, <1>3, <1>6
    <2>10. Clears(clearing', fs', rss.enrolled)
      BY Zenon, <1>3, <2>6, <2>9 DEF Clears
    <2>11. CmdFits(rssCmd, fs')
      BY ZenonT(30), <1>0, <1>3, <2>3, <2>6, CmdUndisturbed
    <2>. QED BY Zenon, <1>0, <1>1, <2>5, <2>7, <2>8, <2>10, <2>11, FilesMove
  <1>7. CASE fs' = [fs EXCEPT !["consumed"] = Absent] /\ clearing' = NotClearing
    <2>1. /\ DOMAIN fs' = RssFiles /\ fs'["consumed"] = Absent
          /\ \A g \in RssFiles : g # "consumed" => fs'[g] = fs[g]
      BY Zenon, <1>0, <1>7, FileSet
    <2>2. /\ fs'["key"] = fs["key"] /\ fs'["profile"] = fs["profile"] /\ fs'["state"] = fs["state"]
          /\ fs'["token"] = fs["token"]
          /\ fs'["pending"] = fs["pending"] /\ fs'["prepared"] = fs["prepared"] /\ fs'["admin"] = fs["admin"]
      BY Zenon, <1>0, <2>1
    <2>3. FileTypes(fs')
      BY Zenon, <1>0, <2>1, <2>2 DEF FileTypes, Filled
    <2>4. OnDisk(fs') /\ BoundTo(fs', rss.bound) /\ OwnerHeld(fs', rss.owner) /\ In(fs', "profile")
      BY Zenon, <1>0, <1>3, <2>2 DEF OnDisk, BoundTo, OwnerHeld, In, Filled
    <2>5. Kept
      BY Zenon, <2>2 DEF Kept, Keeps, In, Filled
    <2>6. Clears(clearing', fs', rss.enrolled)
      BY Zenon, <1>7 DEF Clears
    <2>7. CmdFits(rssCmd, fs')
      BY Zenon, <1>0, <1>3, <2>1, <2>4, CmdUndisturbed
    <2>. QED BY Zenon, <1>0, <1>1, <2>3, <2>4, <2>5, <2>6, <2>7, FilesMove
  <1>. QED BY Zenon, <1>5, <1>6, <1>7 DEF ClearStep

-----------------------------------------------------------------------------
LEMMA ProvisioningStart == ProvisioningInit => ProvisioningInv
  <1>. SUFFICES ASSUME ProvisioningInit PROVE ProvisioningInv
    BY Zenon
  <1>1. /\ fs = [f \in RssFiles |-> Absent] /\ rssCmd = NoCmd /\ clearing = NotClearing /\ fresh = 1
        /\ rss \in [issued : {{}}, dead : {{}}, bound : {{}}, enrolled : {{}}, owner : {0, -1}, exported : {0, -2}]
    BY Zenon DEF ProvisioningInit
  <1>2. DOMAIN fs = RssFiles /\ \A f \in RssFiles : fs[f] = Absent
    BY Zenon, <1>1
  <1>3. {"key", "prepared", "profile", "token", "state", "pending", "admin"} \subseteq RssFiles
    BY Zenon DEF RssFiles
  <1>4. rss \in OperatorRecords /\ rss.bound = {} /\ rss.owner \in {0, -1}
    BY <1>1, NoContent DEF OperatorRecords
  <1>5. FileTypes(fs) /\ OnDisk(fs)
    <2>1. \A f \in RssFiles : ~In(fs, f) /\ ~Filled(fs, f) /\ fs[f] = Absent
      BY Zenon, <1>2 DEF In, Filled
    <2>2. FileTypes(fs)
      BY Zenon, <1>2, <1>3, <2>1 DEF FileTypes
    <2>3. OnDisk(fs)
      BY Zenon, <1>3, <2>1 DEF OnDisk
    <2>. QED BY Zenon, <2>2, <2>3
  <1>6. BoundTo(fs, rss.bound) /\ OwnerHeld(fs, rss.owner) /\ Clears(clearing, fs, rss.enrolled)
    <2>1. BoundTo(fs, rss.bound) /\ Clears(clearing, fs, rss.enrolled)
      BY Zenon, <1>1, <1>4 DEF BoundTo, Clears
    <2>2. OwnerHeld(fs, rss.owner)
      BY <1>4 DEF OwnerHeld
    <2>. QED BY Zenon, <2>1, <2>2
  <1>7. fresh \in 1 .. MaxFresh + 1
    BY <1>1, NoContent
  <1>. QED BY Zenon, <1>1, <1>4, <1>5, <1>6, <1>7, NoCmdFits DEF ProvisioningInv, ProvisioningTypes

LEMMA ProvisioningStep ==
    ASSUME ProvisioningInv, [ProvisioningNext]_provisioningVars
    PROVE  ProvisioningInv' /\ Kept
  <1>1. CASE UNCHANGED provisioningVars
    <2>1. UNCHANGED <<fs, rssCmd, clearing, rss, fresh>>
      BY Zenon, <1>1 DEF provisioningVars
    <2>. QED BY Zenon, <2>1, KeepsAll DEF ProvisioningInv, ProvisioningTypes, Kept
  <1>2. ASSUME NEW named \in BOOLEAN, BundleStart(named) PROVE ProvisioningInv' /\ Kept
    BY Zenon, <1>2, BundleStartKeeps
  <1>3. ASSUME NEW t \in rss.issued, Expire(t) PROVE ProvisioningInv' /\ Kept
    BY Zenon, <1>3, ExpireKeeps
  <1>4. ASSUME NEW op \in {"claim", "recover"}, OwnerStart(op) PROVE ProvisioningInv' /\ Kept
    BY Zenon, <1>4, OwnerStartKeeps
  <1>5. CASE \/ PrepareStart \/ PrepareDecide \/ PrepareKey \/ PrepareRecord
             \/ CheckoutStart \/ CheckoutWrite \/ CheckoutLost
             \/ EnrollStart \/ Complete \/ AskOperator \/ AskLost
             \/ Bundle \/ WriteRssState \/ StoreToken
    BY Zenon, <1>5, StartsKeep, PrepareDecideKeeps, KeysKeep, PrepareRecordKeeps, SetupKeeps, EndsKeep,
       CompleteKeeps, AskOperatorKeeps, BundleKeeps
  <1>6. CASE \/ Configure \/ CreateKey \/ WriteProfile \/ DropState \/ DropPrepared
             \/ ImportStart \/ ImportKey \/ ImportProfile
             \/ DaemonEnrolls \/ DaemonClears \/ ClearStep \/ DaemonCrash \/ Crash
             \/ OwnerMaterial \/ OwnerPost \/ OwnerRefused \/ OwnerKey \/ OwnerShow
    BY ZenonT(30), <1>6, ConfigureKeeps, KeysKeep, WriteProfileKeeps, DropsKeep, StartsKeep, ImportProfileKeeps,
       DaemonEnrollsKeeps, DaemonClearsKeeps, ClearStepKeeps, DaemonCrashKeeps, EndsKeep, OwnerKeeps,
       OwnerPostKeeps
  <1>. QED BY Zenon, <1>1, <1>2, <1>3, <1>4, <1>5, <1>6 DEF ProvisioningNext

(* Whenever a setup command or the daemon stops, what is on disk fits what    *)
(* the operator knows and what a repeated command will rely on.               *)
(* (rss_provisioning.py, rss_auth.py, rss_admin.py)                           *)
THEOREM ProvisioningInvariance == ProvisioningSpec => []ProvisioningInv
  <1>1. ProvisioningInv /\ [ProvisioningNext]_provisioningVars => ProvisioningInv'
    BY Zenon, ProvisioningStep
  <1>. QED BY <1>1, ProvisioningStart, PTL DEF ProvisioningSpec

(* The files, the running command and the operator's record keep their types. *)
THEOREM ProvisioningTypeCorrect == ProvisioningSpec => []ProvisioningTypeOK
  <1>1. ProvisioningInv => ProvisioningTypeOK
    <2>. SUFFICES ASSUME ProvisioningInv PROVE ProvisioningTypeOK
      BY Zenon
    <2>1. FileTypes(fs) /\ rss \in OperatorRecords /\ fresh \in 1 .. MaxFresh + 1 /\ CmdFits(rssCmd, fs)
      BY Zenon DEF ProvisioningInv, ProvisioningTypes
    <2>2. fs["profile"] # Torn
      BY Zenon, <2>1, NoContent DEF FileTypes
    <2>3. rssCmd.open => rssCmd.op # "none"
      BY Zenon, <2>1, OneCreated DEF CmdFits, Opened
    <2>4. rss.owner \in -1 .. MaxFresh
      BY Zenon, <2>1 DEF OperatorRecords
    <2>. QED BY Zenon, <2>1, <2>2, <2>3, <2>4 DEF FileTypes, Numbers, ProvisioningTypeOK
  <1>. QED BY <1>1, ProvisioningInvariance, PTL

(* What a stopped setup leaves on disk fits together: setup can be repeated,  *)
(* a token is only ever beside a profile of the connection it was issued for, *)
(* and the owner material the operator recognises is still on disk.           *)
(* (complete_rss_enrollment, _configure_from_state, claim_customer_admin)     *)
THEOREM LeftoversAlwaysFit == ProvisioningSpec => []LeftoversFit
  <1>1. ProvisioningInv => LeftoversFit
    <2>. SUFFICES ASSUME ProvisioningInv PROVE LeftoversFit
      BY Zenon
    <2>1. OnDisk(fs) /\ BoundTo(fs, rss.bound) /\ OwnerHeld(fs, rss.owner)
      BY Zenon DEF ProvisioningInv
    <2>2. "prepared" \in RssFiles
      BY Zenon DEF RssFiles
    <2>3. ~Present("profile") => (Present("token") => Present("state"))
      BY Zenon, <2>1 DEF OnDisk, In, Filled, Present
    <2>4. fs["prepared"] # Torn => ~PreparedInvalid
      BY Zenon, <2>1 DEF OnDisk, Filled, PreparedInvalid, Present, Readable
    <2>5. \A b \in rss.bound : Present("profile") => fs["profile"].conn = b[2]
      BY Zenon, <2>1 DEF BoundTo, In, Present
    <2>. QED BY Zenon, <2>1, <2>2, <2>3, <2>4, <2>5 DEF LeftoversFit, OwnerHeld
  <1>. QED BY <1>1, ProvisioningInvariance, PTL

(* A key once written keeps, a configured device keeps its connection and     *)
(* key, and a token leaves its file only for an identity the operator has     *)
(* enrolled, whichever command or daemon step comes next.                     *)
(* (_write_private_new, clear_consumed_rss_enrollment_token)                  *)
THEOREM MaterialIsKept == ProvisioningSpec => MaterialKept
  <1>1. ProvisioningInv /\ [ProvisioningNext]_provisioningVars =>
          [ /\ Readable("key") => fs'["key"] = fs["key"]
            /\ Present("profile") => /\ fs'["profile"] # Absent
                                     /\ fs'["profile"].conn = fs["profile"].conn
                                     /\ fs'["profile"].key = fs["profile"].key
            /\ Readable("token") /\ fs'["token"] = Absent => Me \in rss.enrolled ]_provisioningVars
    <2>. SUFFICES ASSUME ProvisioningInv, [ProvisioningNext]_provisioningVars
                  PROVE  /\ Readable("key") => fs'["key"] = fs["key"]
                         /\ Present("profile") => /\ fs'["profile"] # Absent
                                                  /\ fs'["profile"].conn = fs["profile"].conn
                                                  /\ fs'["profile"].key = fs["profile"].key
                         /\ Readable("token") /\ fs'["token"] = Absent => Me \in rss.enrolled
      BY Zenon
    <2>1. Keeps(fs, fs', rss.enrolled)
      BY Zenon, ProvisioningStep DEF Kept
    <2>2. Readable("key") => Filled(fs, "key")
      BY Zenon DEF Readable, Filled
    <2>3. Readable("token") => Filled(fs, "token")
      BY Zenon DEF Readable, Filled
    <2>. QED BY Zenon, <2>1, <2>2, <2>3 DEF Keeps, In, Present, Me
  <1>. QED BY <1>1, ProvisioningInvariance, PTL DEF ProvisioningSpec, MaterialKept

---------------------------------------------------------------------------
(***************************************************************************)
(* For any descriptors, any number of overlapping registrations and route  *)
(* refreshes, and any bound on transactions: a store never holds two       *)
(* active endpoints of a node, its nodes row names the active one, and the *)
(* peer's store only ever follows what the node itself recorded.           *)
(*                                                                         *)
(* OneActiveEndpoint alone is not inductive: a registration submits an     *)
(* update of an endpoint it read earlier, and the peer projects a          *)
(* transaction recorded long before, so the invariant also says what a     *)
(* waiting registration and a logged transaction may name.                 *)
(***************************************************************************)

States == {"absent", "active", "expired", "removed"}
Tables == [Endpoint -> States]
Named == Endpoint \cup {NoEndpoint}

(* A transaction that names a previous endpoint names one that was active.  *)
TxShape(tx) ==
    /\ tx.type \in {"register", "update", "replace", "expire", "remove"}
    /\ tx.endpoint \in Endpoint
    /\ tx.type \in {"update", "replace"} => tx.previous \in Endpoint

AloneActive(table) ==
    \A e, f \in Endpoint : table[e] = "active" /\ table[f] = "active" => e = f

EndpointsOK ==
    /\ endpoints \in [EndpointStore -> Tables]
    /\ service_address \in [EndpointStore -> Named]
    /\ \A s \in EndpointStore :
           /\ AloneActive(endpoints[s])
           /\ service_address[s] = CurrentOf(endpoints[s])

LogsOK ==
    /\ \E T : endpointLog \in [EndpointStore -> Seq(T)]
    /\ \A s \in EndpointStore : \A tx \in Range(endpointLog[s]) : TxShape(tx)
    /\ Range(endpointLog["away"]) \subseteq Range(endpointLog["home"])

JobsOK ==
    registering \in [Registration -> [pc : {"idle", "submit"}, endpoint : Named, previous : Named]]

SubmitsKnown == \A r \in Registration : registering[r].pc = "submit" => registering[r].endpoint \in Endpoint

RoutesOK ==
    /\ refreshing \in [Refresh -> {<<>>} \cup {<<e>> : e \in Named}]
    /\ runtimeRoute \in (Endpoint \ Wildcard) \cup {NoEndpoint}

EInv == EndpointsOK /\ LogsOK /\ JobsOK /\ SubmitsKnown /\ RoutesOK

-----------------------------------------------------------------------------
(* list_active_peer_endpoints returns an active record, or none.            *)
LEMMA CurrentIsActive ==
    ASSUME NEW table \in Tables
    PROVE  /\ CurrentOf(table) \in Named
           /\ ActiveAt(table) # {} => CurrentOf(table) \in ActiveAt(table)
  BY Zenon DEF Tables, CurrentOf, ActiveAt, Named

(* A projection that apply_peer_endpoint_transaction does not refuse keeps  *)
(* at most one endpoint active, whatever the previous endpoint was.         *)
LEMMA AppliedKeepsOne ==
    ASSUME NEW table \in Tables, NEW tx, TxShape(tx),
           AloneActive(table), EndpointApplies(table, tx)
    PROVE  EndpointApplied(table, tx) \in Tables /\ AloneActive(EndpointApplied(table, tx))
  <1>1. CASE tx.type = "register"
    <2>1. EndpointApplied(table, tx) = [table EXCEPT ![tx.endpoint] = "active"]
      BY Zenon, <1>1 DEF EndpointApplied
    <2>2. ActiveAt(table) \in {{}, {tx.endpoint}}
      BY Zenon, <1>1 DEF EndpointApplies
    <2>. QED BY Zenon, <2>1, <2>2 DEF Tables, States, AloneActive, ActiveAt, TxShape
  <1>2. CASE tx.type \in {"update", "replace"}
    <2>1. EndpointApplied(table, tx) =
             [e \in DOMAIN table |-> IF e = tx.endpoint THEN "active"
                                     ELSE IF e = tx.previous THEN "removed" ELSE table[e]]
      BY Zenon, <1>2 DEF EndpointApplied
    <2>2. table[tx.previous] = "active"
      BY Zenon, <1>2 DEF EndpointApplies
    <2>. QED BY <1>2, <2>1, <2>2 DEF Tables, States, AloneActive, TxShape
  <1>3. CASE tx.type = "expire"
    BY Zenon, <1>3 DEF EndpointApplied, Tables, States, AloneActive, TxShape
  <1>4. CASE tx.type = "remove"
    BY Zenon, <1>4 DEF EndpointApplied, Tables, States, AloneActive, TxShape
  <1>. QED BY Zenon, <1>1, <1>2, <1>3, <1>4 DEF TxShape

LEMMA RangeAppend ==
    ASSUME NEW T, NEW s \in Seq(T), NEW x
    PROVE  Range(Append(s, x)) = Range(s) \cup {x}
  <1>1. /\ DOMAIN Append(s, x) = 1 .. Len(s) + 1
        /\ DOMAIN s = 1 .. Len(s)
        /\ \A i \in 1 .. Len(s) : Append(s, x)[i] = s[i]
        /\ Append(s, x)[Len(s) + 1] = x
        /\ Len(s) \in Nat
    BY DEF Append
  <1>. QED BY <1>1 DEF Range

(* One submission to a store: its record, its row and its log move          *)
(* together and the other store is left alone.                              *)
LEMMA SubmitKeeps ==
    ASSUME EInv, NEW s \in EndpointStore, NEW tx, TxShape(tx),
           EndpointSubmits(s, tx),
           s = "away" => tx \in Range(endpointLog["home"])
    PROVE  EndpointsOK' /\ LogsOK'
  <1>. DEFINE table == EndpointApplied(endpoints[s], tx)
  <1>1. table \in Tables /\ AloneActive(table)
    BY Zenon, AppliedKeepsOne DEF EInv, EndpointsOK, EndpointSubmits
  <1>2. CurrentOf(table) \in Named
    BY Zenon, <1>1, CurrentIsActive
  <1>3. /\ endpoints' = [endpoints EXCEPT ![s] = table]
        /\ service_address' = [service_address EXCEPT ![s] = CurrentOf(table)]
        /\ endpointLog' = [endpointLog EXCEPT ![s] = Append(@, tx)]
    BY Zenon DEF EndpointSubmits, EndpointStored
  <1>. HIDE DEF table
  <1>4. EndpointsOK'
    BY Zenon, <1>1, <1>2, <1>3 DEF EInv, EndpointsOK
  <1>5. PICK T : endpointLog \in [EndpointStore -> Seq(T)]
    BY Zenon DEF EInv, LogsOK
  <1>6. endpointLog' \in [EndpointStore -> Seq(T \cup {tx})]
    <2>1. \A q \in Seq(T) : q \in Seq(T \cup {tx}) /\ Append(q, tx) \in Seq(T \cup {tx})
      OBVIOUS
    <2>. QED BY Zenon, <1>3, <1>5, <2>1
  <1>7. \A u \in EndpointStore :
            Range(endpointLog'[u]) = IF u = s THEN Range(endpointLog[u]) \cup {tx} ELSE Range(endpointLog[u])
    BY Zenon, <1>3, <1>5, RangeAppend
  <1>8. LogsOK'
    <2>1. \E U : endpointLog' \in [EndpointStore -> Seq(U)]
      BY Zenon, <1>6
    <2>2. \A u \in EndpointStore : \A x \in Range(endpointLog'[u]) : TxShape(x)
      BY Zenon, <1>7 DEF EInv, LogsOK
    <2>3. Range(endpointLog'["away"]) \subseteq Range(endpointLog'["home"])
      BY Zenon, <1>7 DEF EInv, LogsOK, EndpointStore
    <2>. QED BY Zenon, <2>1, <2>2, <2>3 DEF LogsOK
  <1>. QED BY Zenon, <1>4, <1>8

-----------------------------------------------------------------------------
LEMMA EndpointInitOK == EndpointInit => EInv
  <1>. SUFFICES ASSUME EndpointInit PROVE EInv
    BY Zenon
  <1>1. EndpointsOK
    BY Zenon DEF EndpointInit, EndpointsOK, Tables, States, Named, AloneActive, CurrentOf, ActiveAt
  <1>2. endpointLog \in [EndpointStore -> Seq({})]
    BY DEF EndpointInit
  <1>3. LogsOK
    BY <1>2 DEF EndpointInit, LogsOK, Range, EndpointStore
  <1>4. JobsOK /\ SubmitsKnown /\ RoutesOK
    BY Zenon DEF EndpointInit, JobsOK, SubmitsKnown, RoutesOK, NoRegistration, Named
  <1>. QED BY Zenon, <1>1, <1>3, <1>4 DEF EInv

(* A registration that has read an endpoint submits a well-formed update.   *)
LEMMA RegistrationShape ==
    ASSUME EInv, NEW r \in Registration, registering[r].pc = "submit"
    PROVE  TxShape(RegistrationTx(r))
  BY Zenon DEF EInv, JobsOK, SubmitsKnown, TxShape, RegistrationTx, EndpointTx, Named

LEMMA EndpointKept == EInv /\ [EndpointNext]_endpointVars => EInv'
  <1>. SUFFICES ASSUME EInv, [EndpointNext]_endpointVars PROVE EInv'
    BY Zenon
  <1>1. ASSUME NEW r \in Registration, NEW e \in Endpoint, RegistrationReads(r, e) PROVE EInv'
    <2>1. CurrentOf(endpoints["home"]) \in Named
      BY Zenon, CurrentIsActive DEF EInv, EndpointsOK, EndpointStore
    <2>2. JobsOK' /\ SubmitsKnown'
      BY Zenon, <1>1, <2>1 DEF EInv, RegistrationReads, JobsOK, SubmitsKnown, Named
    <2>. QED BY Zenon, <1>1, <2>2 DEF EInv, RegistrationReads, EndpointsOK, LogsOK, RoutesOK
  <1>2. ASSUME NEW r \in Registration, RegistrationSubmits(r) PROVE EInv'
    <2>1. EndpointsOK' /\ LogsOK'
      <3>1. TxShape(RegistrationTx(r))
        BY Zenon, <1>2, RegistrationShape DEF RegistrationSubmits
      <3>2. CASE EndpointSubmits("home", RegistrationTx(r))
        BY Zenon, <3>1, <3>2, SubmitKeeps DEF EndpointStore
      <3>3. CASE UNCHANGED <<endpoints, service_address, endpointLog>>
        BY Zenon, <3>3 DEF EInv, EndpointsOK, LogsOK
      <3>. QED BY Zenon, <1>2, <3>2, <3>3 DEF RegistrationSubmits
    <2>2. JobsOK' /\ SubmitsKnown' /\ RoutesOK'
      BY Zenon, <1>2 DEF EInv, RegistrationSubmits, JobsOK, SubmitsKnown, RoutesOK, NoRegistration, Named
    <2>. QED BY Zenon, <2>1, <2>2 DEF EInv
  <1>3. ASSUME NEW r \in Registration, RegistrationKilled(r) PROVE EInv'
    BY Zenon, <1>3 DEF EInv, RegistrationKilled, EndpointsOK, LogsOK, JobsOK, SubmitsKnown, RoutesOK,
                NoRegistration, Named
  <1>4. ASSUME NEW type \in {"replace", "expire", "remove"}, NEW e \in Endpoint, LocalEndpoint(type, e)
        PROVE EInv'
    <2>. DEFINE prior == IF type = "replace" THEN CurrentOf(endpoints["home"]) ELSE NoEndpoint
                tx == EndpointTx(type, e, prior, NextEndpointTx)
    <2>1. CurrentOf(endpoints["home"]) \in Named
      BY Zenon, CurrentIsActive DEF EInv, EndpointsOK, EndpointStore
    <2>2. TxShape(tx)
      BY Zenon, <1>4, <2>1 DEF LocalEndpoint, TxShape, EndpointTx, Named
    <2>3. EndpointSubmits("home", tx)
      BY Zenon, <1>4 DEF LocalEndpoint
    <2>. HIDE DEF tx
    <2>4. EndpointsOK' /\ LogsOK'
      BY Zenon, <2>2, <2>3, SubmitKeeps DEF EndpointStore
    <2>. QED BY Zenon, <1>4, <2>4 DEF EInv, LocalEndpoint, JobsOK, SubmitsKnown, RoutesOK
  <1>5. ASSUME NEW tx \in Range(endpointLog["home"]), EndpointArrives(tx) PROVE EInv'
    <2>1. TxShape(tx)
      BY Zenon DEF EInv, LogsOK, EndpointStore
    <2>2. EndpointsOK' /\ LogsOK'
      BY Zenon, <1>5, <2>1, SubmitKeeps DEF EndpointArrives, EndpointStore
    <2>. QED BY Zenon, <1>5, <2>2 DEF EInv, EndpointArrives, JobsOK, SubmitsKnown, RoutesOK
  <1>6. CASE EndpointPeerRevoked
    BY Zenon, <1>6 DEF EInv, EndpointPeerRevoked, EndpointsOK, LogsOK, JobsOK, SubmitsKnown, RoutesOK
  <1>7. ASSUME NEW w \in Refresh, RefreshReads(w) PROVE EInv'
    <2>1. CurrentOf(endpoints["away"]) \in Named
      BY Zenon, CurrentIsActive DEF EInv, EndpointsOK, EndpointStore
    <2>2. RoutesOK'
      BY Zenon, <1>7, <2>1 DEF EInv, RefreshReads, RoutesOK
    <2>. QED BY Zenon, <1>7, <2>2 DEF EInv, RefreshReads, EndpointsOK, LogsOK, JobsOK, SubmitsKnown
  <1>8. ASSUME NEW w \in Refresh, ReplaceFromRuntime(w) PROVE EInv'
    <2>1. refreshing[w][1] \in Named
      BY <1>8 DEF EInv, RoutesOK, ReplaceFromRuntime
    <2>2. RoutesOK'
      BY Zenon, <1>8, <2>1 DEF EInv, ReplaceFromRuntime, RoutesOK, Named
    <2>. QED BY Zenon, <1>8, <2>2 DEF EInv, ReplaceFromRuntime, EndpointsOK, LogsOK, JobsOK, SubmitsKnown
  <1>9. CASE UNCHANGED endpointVars
    BY Zenon, <1>9 DEF endpointVars, EInv, EndpointsOK, LogsOK, JobsOK, SubmitsKnown, RoutesOK
  <1>. QED BY Zenon, <1>1, <1>2, <1>3, <1>4, <1>5, <1>6, <1>7, <1>8, <1>9 DEF EndpointNext

(* The endpoint records, the logs, the waiting registrations and the        *)
(* runtime routes stay consistent in every reachable state.                 *)
THEOREM EndpointInvariance == EndpointSpec => []EInv
  BY EndpointInitOK, EndpointKept, PTL DEF EndpointSpec

(* The tables, jobs and routes keep their shapes, and no bind address ever  *)
(* becomes a route of the peer's daemon.                                    *)
THEOREM EndpointTypeCorrect == EndpointSpec => []EndpointTypeOK
  <1>1. EInv => EndpointTypeOK
    BY Zenon DEF EInv, EndpointTypeOK, EndpointsOK, JobsOK, RoutesOK, Tables, States, Named
  <1>. QED BY <1>1, EndpointInvariance, PTL

(* What is needed of the cardinality of the smallest sets.                  *)
SmallSets == Cardinality({}) = 0 /\ \A x : Cardinality({x}) = 1

LEMMA OneActiveIf ==
    SmallSets => (EInv => OneActiveEndpoint)
  <1>. SUFFICES ASSUME SmallSets, EInv PROVE OneActiveEndpoint
    BY Zenon
  <1>1. ASSUME NEW table \in Tables, AloneActive(table)
        PROVE  Cardinality(ActiveAt(table)) <= 1
    <2>1. CASE ActiveAt(table) = {}
      BY <2>1 DEF SmallSets
    <2>2. CASE ActiveAt(table) # {}
      <3>1. PICK e \in Endpoint : ActiveAt(table) = {e}
        BY Zenon, <1>1, <2>2 DEF ActiveAt, AloneActive, Tables
      <3>. QED BY <3>1 DEF SmallSets
    <2>. QED BY Zenon, <2>1, <2>2
  <1>. QED BY Zenon, <1>1 DEF EInv, EndpointsOK, OneActiveEndpoint

(* verify_peer_endpoint_transaction runs before every projection: a revoked *)
(* peer's records do not change, and what the peer's log gains is a         *)
(* transaction of the node's own log.                                       *)
THEOREM AwayFollows == EndpointSpec => AwayFollowsHome
  <1>. DEFINE Follows ==
         /\ endpoints'["away"] # endpoints["away"] => epAdmitted
         /\ endpointLog'["away"] # endpointLog["away"] =>
                endpointLog'["away"][Len(endpointLog'["away"])] \in Range(endpointLog["home"])
  <1>1. ASSUME EInv, [EndpointNext]_endpointVars PROVE [Follows]_endpointVars
    <2>1. PICK T : endpointLog \in [EndpointStore -> Seq(T)]
      BY Zenon, <1>1 DEF EInv, LogsOK
    <2>2. ASSUME NEW tx, EndpointSubmits("home", tx) PROVE Follows
      BY Zenon, <1>1, <2>1, <2>2 DEF EInv, EndpointsOK, EndpointSubmits, EndpointStored, EndpointStore
    <2>3. ASSUME NEW tx \in Range(endpointLog["home"]), EndpointSubmits("away", tx) PROVE Follows
      <3>1. endpointLog'["away"] = Append(endpointLog["away"], tx)
        BY Zenon, <2>1, <2>3 DEF EndpointSubmits, EndpointStored, EndpointStore
      <3>2. endpointLog'["away"][Len(endpointLog'["away"])] = tx
        BY <2>1, <3>1 DEF EndpointStore
      <3>3. epAdmitted
        BY Zenon, <2>3 DEF EndpointSubmits, EndpointVerifies
      <3>. QED BY Zenon, <2>3, <3>2, <3>3
    <2>4. CASE UNCHANGED <<endpoints, endpointLog>>
      BY Zenon, <2>4
    <2>. HIDE DEF Follows
    <2>. QED
      BY Zenon, <1>1, <2>2, <2>3, <2>4
      DEF EndpointNext, endpointVars, RegistrationReads, RegistrationSubmits, RegistrationKilled,
          LocalEndpoint, EndpointArrives, EndpointPeerRevoked, RefreshReads, ReplaceFromRuntime
  <1>. QED BY <1>1, EndpointInvariance, PTL DEF EndpointSpec, AwayFollowsHome

---------------------------------------------------------------------------
(***************************************************************************)
(* For any finite set of configured relays and any number of rounds and    *)
(* host scopes, a round of relay authentication leaves its books in order. *)
(*                                                                         *)
(* RoundAccounts speaks of the state between rounds; what makes it true is *)
(* how a running round counts: a relay whose task has not ended is still   *)
(* "checking", so that no relay is counted twice, every authenticated      *)
(* relay has left its route answer, and one that timed out stays failed.   *)
(***************************************************************************)

Authentic == {r \in Relay : relay_state[r] = "authenticated"}

RelayTypes ==
    /\ relay_phase \in {"down", "round", "reserve", "idle"}
    /\ relay_state \in [Relay -> RelayStates]
    /\ relay_task \in [Relay -> TaskStates]
    /\ control_streams \subseteq Relay /\ reservations \subseteq Relay /\ queued \subseteq Relay
    /\ route_responses \subseteq Relay /\ timed_out \subseteq Relay
    /\ authenticated \in 0 .. Cardinality(Relay)
    /\ relay_connected \in Int

Flags ==
    /\ deadline_passed \in BOOLEAN /\ returned_token \in BOOLEAN /\ relay_auth \in BOOLEAN
    /\ refresh \in BOOLEAN /\ token_file \in BOOLEAN /\ enrolled \in BOOLEAN

(* A relay is "checking" until its task ends.                               *)
StillChecking ==
    relay_phase = "round" =>
        \A r \in Relay : relay_task[r] \in {"connect", "enroll", "again"} => relay_state[r] = "checking"

(* The round counts no relay it has not authenticated, and has the route    *)
(* answer of every relay it has.                                            *)
CountedOnce ==
    relay_phase = "round" => authenticated <= Cardinality(Authentic) /\ Authentic \subseteq route_responses

TimedOutFailed ==
    relay_phase \in {"round", "reserve"} => \A r \in timed_out : relay_state[r] = "failed"

RInv == RelayTypes /\ Flags /\ StillChecking /\ CountedOnce /\ TimedOutFailed /\ RoundAccounts

-----------------------------------------------------------------------------
(* How relays are counted.                                                  *)
FiniteRelays ==
    /\ Cardinality({}) = 0
    /\ \A S \in SUBSET Relay :
          /\ Cardinality(S) \in Nat /\ Cardinality(S) <= Cardinality(Relay)
          /\ \A r \in Relay \ S : Cardinality(S \cup {r}) = Cardinality(S) + 1
          /\ \A T \in SUBSET S : Cardinality(S \ T) = Cardinality(S) - Cardinality(T)

LEMMA RelayCount ==
    ASSUME FiniteRelays
    PROVE  Cardinality(Relay) \in Nat
  BY Zenon DEF FiniteRelays

(* A round begins with every relay being checked and nothing counted.       *)
LEMMA RoundBeginKeeps ==
    ASSUME FiniteRelays, RInv, BeginRound,
           UNCHANGED <<control_streams, reservations, queued, relay_connected>>
    PROVE  RelayTypes' /\ StillChecking' /\ CountedOnce' /\ TimedOutFailed' /\ RoundAccounts'
  <1>1. Authentic' = {}
    BY Zenon DEF BeginRound, Authentic
  <1>2. Cardinality(Authentic') = 0
    BY Zenon, <1>1 DEF FiniteRelays
  <1>3. RelayTypes'
    <2>1. 0 \in 0 .. Cardinality(Relay)
      BY RelayCount
    <2>. QED BY Zenon, <2>1 DEF RInv, RelayTypes, BeginRound, RelayStates, TaskStates
  <1>4. StillChecking' /\ TimedOutFailed' /\ RoundAccounts'
    BY Zenon DEF BeginRound, StillChecking, TimedOutFailed, RoundAccounts
  <1>5. CountedOnce'
    BY <1>1, <1>2 DEF BeginRound, CountedOnce
  <1>. QED BY Zenon, <1>3, <1>4, <1>5

(* A session that ends with an authenticated relay adds one to both sides.  *)
LEMMA ReadyKeeps ==
    ASSUME FiniteRelays, RInv, NEW r \in Relay, SessionReady(r)
    PROVE  RInv'
  <1>. USE DEF RInv
  <1>0. relay_phase = "round" /\ relay_phase' = "round" /\ relay_state[r] = "checking"
    BY Zenon DEF SessionReady, SessionRunning, StillChecking
  <1>1. relay_state' \in [Relay -> RelayStates] /\ relay_task' = [relay_task EXCEPT ![r] = "done"]
        /\ timed_out' = timed_out /\ route_responses' = route_responses \cup {r}
        /\ \A q \in Relay \ {r} : relay_state'[q] = relay_state[q]
    BY Zenon DEF SessionReady, RelayEnds, RelayTypes, RelayStates
  <1>2. CountedOnce' /\ authenticated' \in 0 .. Cardinality(Relay)
    <2>1. CASE ClearsToken(r) /\ ~token_file
      <3>1. relay_state' = [relay_state EXCEPT ![r] = "failed"] /\ authenticated' = authenticated
        BY Zenon, <2>1 DEF SessionReady
      <3>2. Authentic' = Authentic
        BY Zenon, <1>0, <3>1 DEF Authentic, RelayTypes
      <3>. QED BY Zenon, <1>0, <1>1, <3>1, <3>2 DEF CountedOnce, RelayTypes
    <2>2. CASE ~(ClearsToken(r) /\ ~token_file)
      <3>1. relay_state' = [relay_state EXCEPT ![r] = "authenticated"]
            /\ authenticated' = IF deadline_passed THEN authenticated ELSE authenticated + 1
        BY Zenon, <2>2 DEF SessionReady
      <3>2. Authentic' = Authentic \cup {r} /\ r \notin Authentic /\ Authentic \in SUBSET Relay
        BY Zenon, <1>0, <3>1 DEF Authentic, RelayTypes
      <3>3. Cardinality(Authentic') = Cardinality(Authentic) + 1
        BY Zenon, <3>2 DEF FiniteRelays
      <3>4. Cardinality(Authentic') <= Cardinality(Relay) /\ Cardinality(Authentic) \in Nat
            /\ Cardinality(Relay) \in Nat
        <4>1. Authentic' \in SUBSET Relay /\ Relay \in SUBSET Relay
          BY Zenon, <3>2
        <4>. QED BY Zenon, <3>2, <4>1 DEF FiniteRelays
      <3>5. authenticated <= Cardinality(Authentic) /\ Authentic \subseteq route_responses
        BY Zenon, <1>0 DEF CountedOnce
      <3>. QED BY <1>0, <1>1, <3>1, <3>2, <3>3, <3>4, <3>5 DEF CountedOnce, RelayTypes
    <2>. QED BY Zenon, <2>1, <2>2
  <1>3. RelayTypes'
    BY Zenon, <1>1, <1>2 DEF SessionReady, RelayTypes, TaskStates
  <1>4. Flags'
    <2>1. CASE ClearsToken(r) /\ ~token_file
      BY Zenon, <2>1 DEF SessionReady, Flags, serverVars
    <2>2. CASE ~(ClearsToken(r) /\ ~token_file)
      <3>1. token_file' = (token_file /\ ~ClearsToken(r))
            /\ returned_token' = (returned_token /\ (deadline_passed \/ ~ClearsToken(r)))
        BY Zenon, <2>2 DEF SessionReady
      <3>2. token_file' \in BOOLEAN /\ returned_token' \in BOOLEAN
        BY Zenon, <3>1
      <3>. QED BY Zenon, <3>2 DEF SessionReady, Flags, serverVars
    <2>. QED BY Zenon, <2>1, <2>2
  <1>5. StillChecking'
    BY Zenon, <1>1 DEF StillChecking, RelayTypes, SessionReady
  <1>6. TimedOutFailed'
    BY Zenon, <1>0, <1>1 DEF TimedOutFailed, RelayTypes
  <1>7. RoundAccounts'
    BY Zenon, <1>0 DEF RoundAccounts
  <1>. QED BY Zenon, <1>2, <1>3, <1>4, <1>5, <1>6, <1>7

(* The end of a round, whichever route answers prove invalid.               *)
LEMMA CloseKeeps ==
    ASSUME FiniteRelays, RInv, NEW invalid \in SUBSET Relay, RoundCloses(invalid)
    PROVE  RInv'
  <1>. USE DEF RInv
  <1>0. relay_phase = "round" /\ relay_phase' = "reserve" /\ invalid \subseteq Routable
    BY Zenon DEF RoundCloses
  <1>1. Routable = Authentic
    BY Zenon, <1>0 DEF Routable, Authentic, CountedOnce, RelayTypes
  <1>2. relay_state' = [r \in Relay |-> IF r \in Late \cup invalid THEN "failed" ELSE relay_state[r]]
    BY Zenon DEF RoundCloses
  <1>3. Authentic' = Authentic \ invalid
    BY Zenon, <1>2 DEF Authentic, Late
  <1>4. Cardinality(Authentic \ invalid) = Cardinality(Authentic) - Cardinality(invalid)
    <2>1. Authentic \in SUBSET Relay /\ invalid \in SUBSET Authentic
      BY Zenon, <1>0, <1>1 DEF Authentic
    <2>. QED BY Zenon, <2>1 DEF FiniteRelays
  <1>5. Cardinality(Authentic) \in Nat /\ Cardinality(invalid) \in Nat
    BY Zenon DEF Authentic, FiniteRelays
  <1>6. relay_connected' = authenticated - Cardinality(invalid) /\ authenticated <= Cardinality(Authentic)
    BY Zenon, <1>0 DEF RoundCloses, Count, CountedOnce
  <1>7. RelayTypes'
    <2>1. relay_state' \in [Relay -> RelayStates]
      BY Zenon, <1>2 DEF RelayTypes, RelayStates
    <2>2. timed_out' \subseteq Relay /\ control_streams' \subseteq Relay /\ reservations' \subseteq Relay
          /\ queued' \subseteq Relay
      BY Zenon DEF RoundCloses, RelayTypes, Routable, Late
    <2>3. relay_connected' \in Int
      BY <1>5, <1>6, RelayCount DEF RelayTypes
    <2>. QED BY Zenon, <1>0, <2>1, <2>2, <2>3 DEF RoundCloses, RelayTypes
  <1>8. Flags'
    <2>1. refresh' \in BOOLEAN
      BY Zenon DEF RoundCloses, Flags
    <2>. QED BY Zenon, <2>1 DEF RoundCloses, Flags, serverVars
  <1>9. TimedOutFailed'
    BY Zenon, <1>0, <1>2 DEF RoundCloses, TimedOutFailed, RelayTypes, Late
  <1>10. RoundAccounts'
    <2>1. relay_connected' <= Cardinality(Authentic')
      BY <1>3, <1>4, <1>5, <1>6 DEF RelayTypes
    <2>2. Authentic' \subseteq queued'
      BY Zenon, <1>1, <1>3 DEF RoundCloses
    <2>3. timed_out' \cap (control_streams' \cup reservations') = {}
      BY Zenon DEF RoundCloses, Retired
    <2>. QED BY Zenon, <2>1, <2>2, <2>3 DEF RoundAccounts, Authentic
  <1>. QED BY Zenon, <1>0, <1>7, <1>8, <1>9, <1>10 DEF StillChecking, CountedOnce

(* Reservations are made for authenticated relays alone.                    *)
LEMMA ReserveKeeps == ASSUME RInv, Reserve PROVE RInv'
  <1>. USE DEF RInv
  <1>1. PICK got \in SUBSET Authentic : reservations' = reservations \cup got
    BY Zenon DEF Reserve, Authentic
  <1>2. relay_phase = "reserve" /\ relay_phase' = "idle"
    BY Zenon DEF Reserve
  <1>3. timed_out \cap Authentic = {}
    BY Zenon, <1>2 DEF TimedOutFailed, Authentic
  <1>4. RoundAccounts'
    BY Zenon, <1>1, <1>2, <1>3 DEF Reserve, RoundAccounts, Authentic
  <1>5. RelayTypes'
    BY Zenon, <1>1, <1>2 DEF Reserve, RelayTypes, Authentic
  <1>6. Flags'
    BY Zenon DEF Reserve, Flags, tokenVars, serverVars
  <1>. QED BY Zenon, <1>2, <1>4, <1>5, <1>6 DEF StillChecking, CountedOnce, TimedOutFailed

-----------------------------------------------------------------------------
LEMMA RelayInitOK == ASSUME FiniteRelays, RelayInit PROVE RInv
  <1>1. RelayTypes
    <2>1. 0 \in 0 .. Cardinality(Relay)
      BY RelayCount
    <2>2. relay_state \in [Relay -> RelayStates]
      BY Zenon DEF RelayInit, RelayStates
    <2>3. /\ relay_phase = "down" /\ relay_task = [r \in Relay |-> "none"] /\ authenticated = 0
          /\ timed_out = {} /\ control_streams = {} /\ reservations = {} /\ route_responses = {}
          /\ queued = {} /\ relay_connected = 0
      BY Zenon DEF RelayInit
    <2>. QED BY <2>1, <2>2, <2>3 DEF RelayTypes, TaskStates
  <1>2. Flags
    BY Zenon DEF RelayInit, Flags
  <1>. QED BY Zenon, <1>1, <1>2
       DEF RInv, RelayInit, StillChecking, CountedOnce, TimedOutFailed, RoundAccounts

(* A step that ends no session as authenticated: at most one relay, whose   *)
(* task was running, moves on, and is failed if it timed out.               *)
LEMMA OtherTaskKeeps ==
    ASSUME RInv, NEW r \in Relay, relay_phase = "round",
           relay_task[r] \in {"connect", "enroll", "again"},
           relay_task' \in [Relay -> TaskStates],
           \A q \in Relay \ {r} : relay_task'[q] = relay_task[q],
           \/ relay_state' = relay_state
           \/ relay_state' = [relay_state EXCEPT ![r] = "failed"] /\ relay_task'[r] = "done",
           timed_out' \in {timed_out, timed_out \cup {r}},
           timed_out' # timed_out => relay_state'[r] = "failed",
           control_streams' \in {control_streams, control_streams \cup {r}},
           UNCHANGED <<relay_phase, authenticated, reservations, route_responses, queued,
                       relay_connected>>
    PROVE  RelayTypes' /\ StillChecking' /\ CountedOnce' /\ TimedOutFailed' /\ RoundAccounts'
  <1>. USE DEF RInv
  <1>1. relay_state[r] = "checking"
    BY Zenon DEF StillChecking
  <1>2. Authentic' = Authentic
    BY Zenon, <1>1 DEF Authentic, RelayTypes
  <1>3. RelayTypes'
    BY Zenon DEF RelayTypes, RelayStates
  <1>4. StillChecking'
    BY Zenon DEF StillChecking, RelayTypes
  <1>5. CountedOnce'
    BY Zenon, <1>2 DEF CountedOnce
  <1>6. TimedOutFailed'
    BY Zenon DEF TimedOutFailed, RelayTypes
  <1>. QED BY Zenon, <1>3, <1>4, <1>5, <1>6 DEF RoundAccounts

LEMMA RelayKept == ASSUME FiniteRelays, RInv, [RelayNext]_relayVars PROVE RInv'
  <1>. USE DEF RInv
  <1>1. CASE HostScopeStarts
    <2>1. Flags'
      BY Zenon, <1>1 DEF HostScopeStarts, BeginRound, Flags, serverVars
    <2>. QED BY Zenon, <1>1, <2>1, RoundBeginKeeps DEF HostScopeStarts
  <1>2. CASE Maintain
    <2>1. Flags'
      BY Zenon, <1>2 DEF Maintain, BeginRound, Flags, tokenVars, serverVars
    <2>. QED BY Zenon, <1>2, <2>1, RoundBeginKeeps DEF Maintain
  <1>3. CASE ProcessRestarts
    <2>1. Flags'
      BY Zenon, <1>3 DEF ProcessRestarts, Flags, roundVars, serverVars
    <2>. QED BY Zenon, <1>3, <2>1 DEF ProcessRestarts, roundVars, routeVars, RelayTypes, StillChecking,
                CountedOnce, Authentic, TimedOutFailed, RoundAccounts
  <1>4. CASE RetireHostScope
    <2>1. Flags'
      BY Zenon, <1>4 DEF RetireHostScope, Flags, serverVars
    <2>2. RelayTypes'
      <3>1. relay_state' \in [Relay -> RelayStates]
        BY Zenon, <1>4 DEF RetireHostScope, RelayStates
      <3>2. /\ relay_phase' = "down" /\ relay_task' = [r \in Relay |-> "none"]
            /\ control_streams' = {} /\ reservations' = {} /\ queued' = {} /\ relay_connected' = 0
            /\ UNCHANGED <<timed_out, authenticated, route_responses>>
        BY Zenon, <1>4 DEF RetireHostScope
      <3>. QED BY <3>1, <3>2 DEF RelayTypes, TaskStates
    <2>. QED BY Zenon, <1>4, <2>1, <2>2
         DEF RetireHostScope, StillChecking, CountedOnce, TimedOutFailed, RoundAccounts
  <1>5. ASSUME NEW r \in Relay, EnrollmentReturns(r) PROVE RInv'
    <2>1. Flags'
      BY Zenon, <1>5 DEF EnrollmentReturns, Flags, tokenVars
    <2>2. relay_task' \in [Relay -> TaskStates] /\ relay_phase = "round" /\ relay_task[r] = "enroll"
          /\ \A q \in Relay \ {r} : relay_task'[q] = relay_task[q]
      BY Zenon, <1>5 DEF EnrollmentReturns, RelayEnds, RelayTypes, TaskStates
    <2>3. \/ relay_state' = relay_state
          \/ relay_state' = [relay_state EXCEPT ![r] = "failed"] /\ relay_task'[r] = "done"
      BY Zenon, <1>5 DEF EnrollmentReturns, RelayEnds, RelayTypes
    <2>. QED BY Zenon, <1>5, <2>1, <2>2, <2>3, OtherTaskKeeps DEF EnrollmentReturns, routeVars
  <1>6. ASSUME NEW r \in Relay, CancelTask(r) PROVE RInv'
    <2>1. Flags'
      BY Zenon, <1>6 DEF CancelTask, Flags, tokenVars, serverVars
    <2>2. relay_task' \in [Relay -> TaskStates] /\ relay_phase = "round"
          /\ relay_task[r] \in {"connect", "again"}
          /\ \A q \in Relay \ {r} : relay_task'[q] = relay_task[q]
      BY Zenon, <1>6 DEF CancelTask, SessionRunning, RelayEnds, RelayTypes, TaskStates
    <2>. QED BY Zenon, <1>6, <2>1, <2>2, OtherTaskKeeps DEF CancelTask, routeVars
  <1>7. CASE Deadline
    <2>1. Flags'
      BY Zenon, <1>7 DEF Deadline, Flags, tokenVars, serverVars
    <2>. QED BY Zenon, <1>7, <2>1 DEF Deadline, routeVars, RelayTypes, StillChecking, CountedOnce,
                Authentic, TimedOutFailed, RoundAccounts
  <1>8. ASSUME NEW invalid \in SUBSET Relay, RoundCloses(invalid) PROVE RInv'
    BY Zenon, <1>8, CloseKeeps
  <1>9. CASE Reserve
    BY Zenon, <1>9, ReserveKeeps
  <1>10. ASSUME NEW r \in Relay, SessionReady(r) PROVE RInv'
    BY Zenon, <1>10, ReadyKeeps
  <1>11. ASSUME NEW r \in Relay, EnrollmentRequired(r) PROVE RInv'
    <2>1. Flags'
      BY Zenon, <1>11 DEF EnrollmentRequired, Flags, tokenVars, serverVars
    <2>2. relay_task' \in [Relay -> TaskStates] /\ relay_phase = "round" /\ relay_task[r] = "connect"
          /\ \A q \in Relay \ {r} : relay_task'[q] = relay_task[q]
      BY Zenon, <1>11 DEF EnrollmentRequired, SessionRunning, RelayTypes, TaskStates
    <2>. QED BY Zenon, <1>11, <2>1, <2>2, OtherTaskKeeps DEF EnrollmentRequired, routeVars
  <1>12. ASSUME NEW r \in Relay, NEW slow \in BOOLEAN, SessionFails(r, slow) PROVE RInv'
    <2>1. Flags'
      BY Zenon, <1>12 DEF SessionFails, Flags, tokenVars, serverVars
    <2>2. relay_task' \in [Relay -> TaskStates] /\ relay_phase = "round"
          /\ relay_task[r] \in {"connect", "again"} /\ relay_task'[r] = "done"
          /\ \A q \in Relay \ {r} : relay_task'[q] = relay_task[q]
      BY Zenon, <1>12 DEF SessionFails, SessionRunning, RelayEnds, RelayTypes, TaskStates
    <2>3. relay_state' = [relay_state EXCEPT ![r] = "failed"] /\ relay_state'[r] = "failed"
          /\ timed_out' \in {timed_out, timed_out \cup {r}}
          /\ control_streams' \in {control_streams, control_streams \cup {r}}
      BY Zenon, <1>12 DEF SessionFails, RelayTypes
    <2>4. UNCHANGED <<relay_phase, authenticated, reservations, route_responses, queued,
                      relay_connected>>
      BY Zenon, <1>12 DEF SessionFails
    <2>. QED BY Zenon, <2>1, <2>2, <2>3, <2>4, OtherTaskKeeps
  <1>13. ASSUME NEW r \in Relay, Project(r) PROVE RInv'
    <2>1. Flags'
      BY Zenon, <1>13 DEF Project, Flags, roundVars, tokenVars
    <2>. QED BY Zenon, <1>13, <2>1 DEF Project, roundVars, routeVars, RelayTypes, StillChecking,
                CountedOnce, Authentic, TimedOutFailed, RoundAccounts
  <1>14. CASE UNCHANGED relayVars
    <2>1. UNCHANGED <<roundVars, routeVars, tokenVars, serverVars>>
      BY Zenon, <1>14 DEF relayVars
    <2>2. Flags'
      BY Zenon, <2>1 DEF Flags, roundVars, tokenVars, serverVars
    <2>. QED BY Zenon, <2>1, <2>2 DEF roundVars, routeVars, RelayTypes, StillChecking,
                CountedOnce, Authentic, TimedOutFailed, RoundAccounts
  <1>. HIDE DEF RInv
  <1>. QED BY ZenonT(30), <1>1, <1>2, <1>3, <1>4, <1>5, <1>6, <1>7, <1>8, <1>9, <1>10, <1>11, <1>12, <1>13,
              <1>14, Zenon DEF RelayNext, RoundTimers, RelayAnswers

-----------------------------------------------------------------------------
(* What was used of finite sets.  The library comes with its own copy of    *)
(* the standard module FiniteSets, which says the same by its definitions.  *)
ListedBySeq(S) == \E seq \in Seq(S) : \A s \in S : \E n \in 1..Len(seq) : seq[n] = s

SizeOf(S) ==
    LET CS[T \in SUBSET S] == IF T = {} THEN 0 ELSE 1 + CS[T \ {CHOOSE x : x \in T}]
    IN  CS[S]

LEMMA StandardFiniteSets ==
    \A S : (IsFiniteSet(S) <=> ListedBySeq(S)) /\ Cardinality(S) = SizeOf(S)
  BY Zenon DEF IsFiniteSet, Cardinality, ListedBySeq, SizeOf

LOCAL INSTANCE FiniteSetTheorems

LEMMA LibraryFiniteSets ==
    \A S : (IsFiniteSet(S) <=> ListedBySeq(S)) /\ Cardinality(S) = SizeOf(S)
  BY Zenon DEF IsFiniteSet, Cardinality, ListedBySeq, SizeOf

LEMMA SmallSetsCount == SmallSets
  <1>1. SizeOf({}) = 0 /\ \A x : SizeOf({x}) = 1
    BY ZenonT(30), LibraryFiniteSets, FS_EmptySet, FS_Singleton
  <1>. QED BY Zenon, <1>1, StandardFiniteSets DEF SmallSets

LEMMA RelaysAreFinite == FiniteRelays
  <1>1. ASSUME NEW S \in SUBSET Relay
        PROVE  /\ SizeOf(S) \in Nat /\ SizeOf(S) <= SizeOf(Relay)
               /\ \A r \in Relay \ S : SizeOf(S \cup {r}) = SizeOf(S) + 1
               /\ \A T \in SUBSET S : SizeOf(S \ T) = SizeOf(S) - SizeOf(T)
    <2>1. IsFiniteSet(Relay)
      BY ZenonT(30), RelayAssumption, StandardFiniteSets, LibraryFiniteSets
    <2>2. IsFiniteSet(S) /\ Cardinality(S) \in Nat /\ Cardinality(S) <= Cardinality(Relay)
      BY ZenonT(30), <2>1, FS_Subset, FS_CardinalityType
    <2>3. ASSUME NEW r \in Relay \ S PROVE Cardinality(S \cup {r}) = Cardinality(S) + 1
      BY Zenon, <2>2, FS_AddElement
    <2>4. ASSUME NEW T \in SUBSET S PROVE Cardinality(S \ T) = Cardinality(S) - Cardinality(T)
      <3>1. S \cap T = T
        BY Zenon
      <3>. QED BY Zenon, <2>2, <3>1, FS_Difference
    <2>. QED BY ZenonT(30), <2>2, <2>3, <2>4, LibraryFiniteSets
  <1>2. SizeOf({}) = 0
    BY Zenon, LibraryFiniteSets, FS_EmptySet
  <1>. QED BY ZenonT(30), <1>1, <1>2, StandardFiniteSets DEF FiniteRelays

-----------------------------------------------------------------------------
(* The theorems about the endpoint records and the relay sessions.          *)

(* However many registrations overlap, each with an endpoint it read        *)
(* before, and in whatever order and however often the peer gets the        *)
(* envelopes, apply_peer_endpoint_transaction leaves at most one active     *)
(* record and nodes.service_address names it.                               *)
THEOREM OneActiveAlways == EndpointSpec => []OneActiveEndpoint
  BY SmallSetsCount, OneActiveIf, EndpointInvariance, PTL

(* The books of a round, running or closed, are in order in every state.    *)
THEOREM RelayInvariance == RelaySpec => []RInv
  <1>1. RelayInit => RInv
    BY Zenon, RelaysAreFinite, RelayInitOK
  <1>2. RInv /\ [RelayNext]_relayVars => RInv'
    BY ZenonT(30), RelaysAreFinite, RelayKept
  <1>. QED BY <1>1, <1>2, PTL DEF RelaySpec

(* Relay states, tasks and counts keep their shapes; the count of a round   *)
(* never exceeds the number of configured relays.                           *)
THEOREM RelayTypeCorrect == RelaySpec => []RelayTypeOK
  <1>1. RInv => RelayTypeOK
    BY ZenonT(30) DEF RInv, RelayTypes, Flags, RelayTypeOK
  <1>. QED BY <1>1, RelayInvariance, PTL

(* Whatever the relays answer, refuse, delay or lose, and whenever the      *)
(* deadline of a round fires, the end of the round publishes no more relays *)
(* than are authenticated, queues the routes of each of them, and leaves a  *)
(* relay that ran out of time neither a control stream nor a reservation.   *)
THEOREM RoundsAccount == RelaySpec => []RoundAccounts
  <1>1. RInv => RoundAccounts
    BY Zenon DEF RInv
  <1>. QED BY <1>1, RelayInvariance, PTL

=============================================================================
