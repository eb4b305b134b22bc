--------------------------- MODULE RssProvisioning ---------------------------
(***************************************************************************)
(* The owner-only files through which one device obtains and keeps its     *)
(* relay (RSS) identity: protocol/rss_provisioning.py, the file half of    *)
(* protocol/rss_auth.py, the owner credential of protocol/rss_admin.py and *)
(* the seckit rss commands that drive them.                                *)
(*                                                                         *)
(* A command and the daemon may stop between any two file operations.  A   *)
(* file made with O_EXCL is created by one step and filled by a later one, *)
(* so a stop in between leaves it empty (Torn); a file that is replaced is *)
(* replaced in one step.  The RSS Operator is external: it issues one-use  *)
(* enrollment tokens, enrolls devices and remembers the owner's material,  *)
(* and any of its replies may be lost after it acted.                      *)
(***************************************************************************)
EXTENDS Integers, FiniteSets

CONSTANTS Absent, Torn,     \* the two states of a file without content
          MaxFresh,         \* bound on random identifiers, tokens and keys
          MaxCrashes,       \* bound on stops between two file operations
          MaxLost           \* bound on lost or refused operator replies

\* A file without content is no identifier and no record.
ASSUME ProvisioningAssumption ==
    /\ Absent # Torn
    /\ {Absent, Torn} \cap Int = {}
    /\ {Absent, Torn} \cap [conn : Int, key : Int] = {}
    /\ {Absent, Torn} \cap [conn : Int, key : Int, token : BOOLEAN] = {}
    /\ MaxFresh \in Nat /\ MaxCrashes \in Nat /\ MaxLost \in Nat

VARIABLES fs,         \* the device's files, by name
          rssCmd,        \* the seckit rss command that runs, one operator at a time
          clearing,   \* the daemon inside clear_consumed_rss_enrollment_token
          rss,        \* external: enrolled identities, dead tokens, owner material
          fresh,      \* the next unused random value
          crashes, lost

provisioningVars == <<fs, rssCmd, clearing, rss, fresh, crashes, lost>>

RssFiles == {"receipt", "prepared", "key", "state", "token", "consumed",
          "profile", "admin", "pending"}

\* A running command, between two of its file operations; and none.
Underway(op, pc, tok) == [op |-> op, pc |-> pc, open |-> FALSE, tok |-> tok]
NoCmd == Underway("none", "none", 0)

Present(f) == fs[f] # Absent
Readable(f) == fs[f] \notin {Absent, Torn}

Fresh == fresh <= MaxFresh
CmdGoto(pc) == rssCmd' = [rssCmd EXCEPT !.pc = pc]

\* An error or a return: the command ends, its files stay as they are.
Stop == rssCmd' = NoCmd

\* _write_private_new and _write_restricted_new_file: create exclusively, then
\* write and sync; an existing file is an error.
WriteNew(f, content, next) ==
    \/ /\ ~rssCmd.open /\ Present(f) /\ Stop /\ UNCHANGED fs
    \/ /\ ~rssCmd.open /\ ~Present(f)
       /\ fs' = [fs EXCEPT ![f] = Torn]
       /\ rssCmd' = [rssCmd EXCEPT !.open = TRUE]
    \/ /\ rssCmd.open
       /\ fs' = [fs EXCEPT ![f] = content]
       /\ rssCmd' = IF next = "none" THEN NoCmd
                 ELSE Underway(rssCmd.op, next, rssCmd.tok)

Unlink(f, next) ==
    /\ fs' = [fs EXCEPT ![f] = Absent]
    /\ rssCmd' = IF next = "none" THEN NoCmd ELSE [rssCmd EXCEPT !.pc = next]

CmdAt(pc) == rssCmd.pc = pc
Private == UNCHANGED <<clearing, rss, crashes, lost>>

-----------------------------------------------------------------------------
(* Tokens: value t is bound to the connection the owner named, or to none.  *)

Dead(t) == t \in rss.dead

\* _pending_token_expired on a readable token; a missing or empty token file
\* is an error of the caller.
TokenNamed == Present("profile") /\ fs["profile"].token
PendingUnreadable == TokenNamed /\ ~Readable("token")
PendingExpired == TokenNamed /\ Readable("token") /\ Dead(fs["token"])

\* _validate_prepared_identity: the key must still be the one recorded.
PreparedInvalid ==
    /\ Present("prepared")
    /\ ~(Readable("prepared") /\ Readable("key") /\ fs["prepared"].key = fs["key"])

-----------------------------------------------------------------------------
(* prepare_rss_device_identity, called by peer join with recovery allowed.  *)

PrepareStart ==
    /\ rssCmd = NoCmd
    /\ rssCmd' = Underway("prepare", "prep", 0)
    /\ UNCHANGED <<fs, fresh>> /\ Private

PrepareDecide ==
    /\ CmdAt("prep")
    /\ \/ /\ Present("profile") \/ Present("prepared")    \* returned or refused
          /\ Stop
       \/ /\ ~Present("profile") /\ ~Present("prepared")
          /\ \/ Present("key") /\ ~Readable("key") /\ Stop
             \/ Readable("key") /\ CmdGoto("prep_record")
             \/ ~Present("key") /\ CmdGoto("prep_key")
    /\ UNCHANGED <<fs, fresh>> /\ Private

PrepareKey ==
    /\ CmdAt("prep_key") /\ Fresh
    /\ WriteNew("key", fresh, "prep_record")
    /\ fresh' = IF rssCmd.open THEN fresh + 1 ELSE fresh
    /\ Private

\* The record keeps the connection_id and the key the operator will be shown.
PrepareRecord ==
    /\ CmdAt("prep_record") /\ Fresh
    /\ WriteNew("prepared", [conn |-> fresh, key |-> fs["key"]], "none")
    /\ fresh' = IF rssCmd.open THEN fresh + 1 ELSE fresh
    /\ Private

-----------------------------------------------------------------------------
(* start_rss_checkout: refuse a second checkout, ask the operator, record.  *)

CheckoutStart ==
    /\ rssCmd = NoCmd /\ ~Present("receipt")
    /\ rssCmd' = Underway("checkout", "checkout", 0)
    /\ UNCHANGED <<fs, fresh>> /\ Private

CheckoutWrite ==
    /\ CmdAt("checkout")
    /\ WriteNew("receipt", 0, "none")
    /\ UNCHANGED fresh /\ Private

CheckoutLost ==
    /\ CmdAt("checkout") /\ ~rssCmd.open /\ lost < MaxLost
    /\ Stop /\ lost' = lost + 1
    /\ UNCHANGED <<fs, clearing, rss, fresh, crashes>>

-----------------------------------------------------------------------------
(* complete_rss_enrollment, and configure_rss_provisioning_bundle behind it *)
(* or behind a bundle read from standard input.                             *)

EnrollStart ==
    /\ rssCmd = NoCmd
    /\ rssCmd' = Underway("enroll", "complete", 0)
    /\ UNCHANGED <<fs, fresh>> /\ Private

Complete ==
    /\ CmdAt("complete")
    /\ \/ /\ PendingUnreadable \/ (Present("profile") /\ ~PendingExpired)
          /\ Stop /\ UNCHANGED fs
       \/ /\ ~Present("profile") \/ (PendingExpired /\ ~PendingUnreadable)
          /\ \/ ~Readable("receipt") /\ Stop /\ UNCHANGED fs
             \/ /\ Readable("receipt")
                /\ IF Present("profile") \/ (~Present("state") /\ ~Present("token"))
                     THEN CmdGoto("ask") /\ UNCHANGED fs
                   ELSE IF ~Present("state") \/ ~Readable("state")
                     THEN Stop /\ UNCHANGED fs           \* orphaned or torn
                   ELSE IF ~Present("token")
                     THEN Unlink("state", "ask")
                   ELSE CmdGoto("configure") /\ UNCHANGED fs
    /\ UNCHANGED fresh /\ Private

\* POST enrollment-token: a fresh token for this device, any connection.
AskOperator ==
    /\ CmdAt("ask") /\ Fresh
    /\ rss' = [rss EXCEPT !.issued = @ \cup {fresh}]
    /\ fresh' = fresh + 1
    /\ rssCmd' = Underway(rssCmd.op, "bundle", fresh)
    /\ UNCHANGED <<fs, clearing, crashes, lost>>

AskLost ==
    /\ CmdAt("ask") /\ lost < MaxLost
    /\ Stop /\ lost' = lost + 1
    /\ UNCHANGED <<fs, clearing, rss, fresh, crashes>>

\* The connection prepare_rss_device_identity returns.
Identified == IF Present("profile") THEN fs["profile"].conn ELSE fs["prepared"].conn

\* seckit rss enroll --bundle-stdin, and the bundle of an approved invitation,
\* which the owner's device.ret action binds to the prepared connection.
BundleStart(named) ==
    /\ rssCmd = NoCmd /\ Fresh
    /\ named => Present("profile") \/ Readable("prepared")
    /\ LET issued == [rss EXCEPT !.issued = @ \cup {fresh}] IN
       rss' = IF named THEN [issued EXCEPT !.bound = @ \cup {<<fresh, Identified>>}] ELSE issued
    /\ fresh' = fresh + 1
    /\ rssCmd' = Underway("bundle", "bundle", fresh)
    /\ UNCHANGED <<fs, clearing, crashes, lost>>

\* The token kept beside a retained state is the new one, or may be replaced:
\* it has expired, or it was never written.
RetainedUsable == fs["token"] \in rss.dead \cup {rssCmd.tok, Torn}

Bundle ==
    /\ CmdAt("bundle")
    /\ \/ /\ \/ Present("profile") /\ ~PendingExpired
             \/ PreparedInvalid
             \/ Present("profile") /\ Dead(rssCmd.tok)
          /\ Stop /\ UNCHANGED fs
       \/ /\ PendingExpired /\ ~PreparedInvalid /\ ~Dead(rssCmd.tok)
          /\ fs' = [fs EXCEPT !["token"] = rssCmd.tok]        \* _replace_expired_token
          /\ Stop
       \/ /\ ~Present("profile") /\ ~PreparedInvalid
          /\ \/ /\ Present("state")
                /\ \/ ~Readable("state") /\ Stop /\ UNCHANGED fs
                   \/ /\ Readable("state") /\ ~Present("token")
                      /\ CmdGoto("store_token") /\ UNCHANGED fs
                   \/ /\ Readable("state") /\ Present("token")
                      /\ \/ Dead(rssCmd.tok) \/ ~RetainedUsable
                      /\ Stop /\ UNCHANGED fs
                   \/ /\ Readable("state") /\ Present("token")
                      /\ ~Dead(rssCmd.tok) /\ RetainedUsable
                      /\ fs' = [fs EXCEPT !["token"] = rssCmd.tok]
                      /\ CmdGoto("configure")
             \/ ~Present("state") /\ Present("token") /\ Stop /\ UNCHANGED fs
             \/ ~Present("state") /\ ~Present("token") /\ CmdGoto("write_state") /\ UNCHANGED fs
    /\ UNCHANGED fresh /\ Private

\* Mutant: the token is stored before the public state that explains it.
WriteStateLater ==
    /\ CmdAt("write_state")
    /\ CmdGoto("store_token")
    /\ UNCHANGED <<fs, fresh>> /\ Private

WriteRssState ==
    /\ CmdAt("write_state")
    /\ WriteNew("state", 0, "store_token")
    /\ UNCHANGED fresh /\ Private

StoreToken ==
    /\ CmdAt("store_token")
    /\ WriteNew("token", rssCmd.tok, "configure")
    /\ UNCHANGED fresh /\ Private

-----------------------------------------------------------------------------
(* _configure_from_state and configure_rss_client.                          *)

\* The connection is the prepared one, else a random one; a key is created
\* only where none exists.
Configure ==
    /\ CmdAt("configure")
    /\ \/ (PreparedInvalid \/ ~Present("token") \/ fs["key"] = Torn) /\ Stop
       \/ /\ ~PreparedInvalid /\ Present("token") /\ fs["key"] # Torn
          /\ CmdGoto(IF Present("key") THEN "profile" ELSE "new_key")
    /\ UNCHANGED <<fs, fresh>> /\ Private

CreateKey ==
    /\ CmdAt("new_key") /\ Fresh
    /\ WriteNew("key", fresh, "profile")
    /\ fresh' = IF rssCmd.open THEN fresh + 1 ELSE fresh
    /\ Private

WriteProfile ==
    /\ CmdAt("profile")
    /\ IF Present("prepared")
         THEN /\ fs' = [fs EXCEPT !["profile"] = [conn |-> fs["prepared"].conn,
                                                  key |-> fs["key"], token |-> TRUE]]
              /\ UNCHANGED fresh
         ELSE /\ Fresh /\ fresh' = fresh + 1
              /\ fs' = [fs EXCEPT !["profile"] = [conn |-> fresh, key |-> fs["key"],
                                                  token |-> TRUE]]
    /\ CmdGoto("drop_state") /\ Private

DropState ==
    /\ CmdAt("drop_state")
    /\ Unlink("state", "drop_prepared")
    /\ UNCHANGED fresh /\ Private

DropPrepared ==
    /\ CmdAt("drop_prepared")
    /\ Unlink("prepared", "none")
    /\ UNCHANGED fresh /\ Private

\* import_rss_authentication_identity: the key another device of the same
\* customer exported, under a connection of its own and without a token.
ImportStart ==
    /\ rssCmd = NoCmd /\ rss.exported # 0
    /\ rssCmd' = Underway("import", "import_key", 0)
    /\ UNCHANGED <<fs, fresh>> /\ Private

ImportKey ==
    /\ CmdAt("import_key")
    /\ WriteNew("key", rss.exported, "import_profile")
    /\ UNCHANGED fresh /\ Private

ImportProfile ==
    /\ CmdAt("import_profile") /\ Fresh
    /\ fs' = [fs EXCEPT !["profile"] = [conn |-> fresh, key |-> fs["key"], token |-> FALSE]]
    /\ fresh' = fresh + 1
    /\ Stop /\ Private

-----------------------------------------------------------------------------
(* The daemon: load_rss_relay_credentials_from_environment, the enrollment  *)
(* and session of the primary relay, and the removal of the consumed token. *)

LoadsFile == Present("profile") /\ Readable("key") /\ ~PendingUnreadable
Me == [conn |-> fs["profile"].conn, key |-> fs["profile"].key]
NotClearing == [pc |-> "none", profile |-> Absent]

\* perform_rss_https_enrollment: the operator accepts a live token that is
\* unbound or bound to this connection.  Its reply may never arrive.
DaemonEnrolls ==
    /\ clearing = NotClearing /\ LoadsFile /\ TokenNamed
    /\ Me \notin rss.enrolled
    /\ ~Dead(fs["token"])
    /\ \A b \in rss.bound : b[1] = fs["token"] => b[2] = Me.conn
    /\ rss' = [rss EXCEPT !.enrolled = @ \cup {Me}]
    /\ UNCHANGED <<fs, rssCmd, clearing, fresh, crashes, lost>>

\* Mutant: the token is removed once it has been sent.
DaemonClearsSent ==
    /\ clearing = NotClearing /\ LoadsFile /\ TokenNamed
    /\ clearing' = [pc |-> "rename", profile |-> fs["profile"]]
    /\ UNCHANGED <<fs, rssCmd, rss, fresh, crashes, lost>>

\* An authenticated primary with a token file: the profile is read, the token
\* renamed, the profile replaced without it, the renamed file removed.
DaemonClears ==
    /\ clearing = NotClearing /\ LoadsFile /\ TokenNamed
    /\ Me \in rss.enrolled
    /\ clearing' = [pc |-> "rename", profile |-> fs["profile"]]
    /\ UNCHANGED <<fs, rssCmd, rss, fresh, crashes, lost>>

ClearStep ==
    /\ \/ /\ clearing.pc = "rename" /\ Present("token")
          /\ fs' = [[fs EXCEPT !["consumed"] = fs["token"]] EXCEPT !["token"] = Absent]
          /\ clearing' = [clearing EXCEPT !.pc = "profile"]
       \/ /\ clearing.pc = "profile"
          /\ fs' = [fs EXCEPT !["profile"] = [clearing.profile EXCEPT !.token = FALSE]]
          /\ clearing' = [clearing EXCEPT !.pc = "unlink"]
       \/ /\ clearing.pc = "unlink"
          /\ fs' = [fs EXCEPT !["consumed"] = Absent]
          /\ clearing' = NotClearing
    /\ UNCHANGED <<rssCmd, rss, fresh, crashes, lost>>

DaemonCrash ==
    /\ clearing # NotClearing /\ crashes < MaxCrashes
    /\ clearing' = NotClearing /\ crashes' = crashes + 1
    /\ UNCHANGED <<fs, rssCmd, rss, fresh, lost>>

Crash ==
    /\ rssCmd # NoCmd /\ crashes < MaxCrashes
    /\ rssCmd' = NoCmd /\ crashes' = crashes + 1
    /\ UNCHANGED <<fs, clearing, rss, fresh, lost>>

\* A pending token reaches its expiry time.
Expire(t) ==
    /\ t \in rss.issued \ rss.dead
    /\ rss' = [rss EXCEPT !.dead = @ \cup {t}]
    /\ UNCHANGED <<fs, rssCmd, clearing, fresh, crashes, lost>>

-----------------------------------------------------------------------------
(* The billing owner's credential: claim, recover, acknowledge.             *)

\* pending_customer_admin_codes comes first, then the claim or the recovery.
OwnerStart(op) ==
    /\ rssCmd = NoCmd
    /\ \/ /\ Readable("admin") /\ Readable("pending") /\ fs["admin"] = fs["pending"]
          /\ rssCmd' = Underway(op, "show", 0)
       \/ /\ ~Present("admin")
          /\ op = "claim" => Readable("receipt") /\ LoadsFile /\ ~TokenNamed
          /\ fs["pending"] # Torn
          /\ rssCmd' = Underway(op, IF Present("pending") THEN "post" ELSE "material", 0)
    /\ UNCHANGED <<fs, fresh>> /\ Private

OwnerMaterial ==
    /\ CmdAt("material") /\ Fresh
    /\ WriteNew("pending", fresh, "post")
    /\ fresh' = IF rssCmd.open THEN fresh + 1 ELSE fresh
    /\ Private

\* The operator accepts a first claim, a repeated claim, or a recovery code.
OwnerPost ==
    /\ CmdAt("post")
    /\ rssCmd.op = "claim" => rss.owner \in {0, fs["pending"]}
    /\ rssCmd.op = "recover" => rss.owner # 0
    /\ rss' = [rss EXCEPT !.owner = fs["pending"]]
    /\ \/ CmdGoto("admin") /\ UNCHANGED lost
       \/ lost < MaxLost /\ Stop /\ lost' = lost + 1      \* reply lost
    /\ UNCHANGED <<fs, clearing, fresh, crashes>>

OwnerRefused ==
    /\ CmdAt("post")
    /\ \/ rssCmd.op = "claim" /\ rss.owner \notin {0, fs["pending"]}
       \/ rssCmd.op = "recover" /\ rss.owner = 0
    /\ Stop /\ UNCHANGED <<fs, fresh>> /\ Private

OwnerKey ==
    /\ CmdAt("admin")
    /\ WriteNew("admin", fs["pending"], "show")
    /\ UNCHANGED fresh /\ Private

\* _show_recovery_codes: the staged codes go only after the acknowledgement.
OwnerShow ==
    /\ CmdAt("show")
    /\ \/ Stop /\ UNCHANGED fs
       \/ Unlink("pending", "none")
    /\ UNCHANGED fresh /\ Private

-----------------------------------------------------------------------------
ProvisioningInit ==
    /\ fs = [f \in RssFiles |-> Absent]
    /\ rssCmd = NoCmd /\ clearing = NotClearing
    /\ rss \in [issued : {{}}, dead : {{}}, bound : {{}}, enrolled : {{}},
                owner : {0, -1}, exported : {0, -2}]
    /\ fresh = 1 /\ crashes = 0 /\ lost = 0

ProvisioningNext ==
    \/ PrepareStart \/ PrepareDecide \/ PrepareKey \/ PrepareRecord
    \/ CheckoutStart \/ CheckoutWrite \/ CheckoutLost
    \/ EnrollStart \/ Complete \/ AskOperator \/ AskLost
    \/ \E named \in BOOLEAN : BundleStart(named)
    \/ Bundle \/ WriteRssState \/ StoreToken
    \/ Configure \/ CreateKey \/ WriteProfile \/ DropState \/ DropPrepared
    \/ ImportStart \/ ImportKey \/ ImportProfile
    \/ DaemonEnrolls \/ DaemonClears \/ ClearStep \/ DaemonCrash \/ Crash
    \/ \E t \in rss.issued : Expire(t)
    \/ \E op \in {"claim", "recover"} : OwnerStart(op)
    \/ OwnerMaterial \/ OwnerPost \/ OwnerRefused \/ OwnerKey \/ OwnerShow

ProvisioningSpec == ProvisioningInit /\ [][ProvisioningNext]_provisioningVars

-----------------------------------------------------------------------------
ProvisioningTypeOK ==
    /\ DOMAIN fs = RssFiles
    /\ \A f \in RssFiles \ {"prepared", "profile"} :
         fs[f] \in {Absent, Torn} \cup (-2 .. MaxFresh)
    /\ fs["profile"] # Torn
    /\ rssCmd.open => rssCmd.op # "none"
    /\ rss.owner \in -1 .. MaxFresh
    /\ fresh \in 1 .. MaxFresh + 1

\* However often setup is stopped and repeated, the device keeps what identifies
\* it: a key file once written keeps its key, a configured device keeps its
\* connection and key ("existing identity preserved"), and a token leaves its
\* file only when the operator has enrolled this very connection and key, so
\* that a lost enrollment reply or a stop never costs the token.
MaterialKept ==
    [][ /\ Readable("key") => fs'["key"] = fs["key"]
        /\ Present("profile") => /\ fs'["profile"] # Absent
                                 /\ fs'["profile"].conn = fs["profile"].conn
                                 /\ fs'["profile"].key = fs["profile"].key
        /\ Readable("token") /\ fs'["token"] = Absent => Me \in rss.enrolled ]_provisioningVars

\* What a stopped setup leaves on disk fits together, so that setup can be
\* repeated.  With no command running and no file left empty,
\* complete_rss_enrollment meets neither an orphaned token nor a prepared record
\* that contradicts the key; a token the owner had issued for a prepared
\* connection is only ever beside a profile of that connection; and the owner
\* material the operator recognises is held in the staged file or in the
\* administrator key ("retains the same codes across a lost HTTP reply").
LeftoversFit ==
    /\ rssCmd = NoCmd /\ ~Present("profile") /\ (\A f \in RssFiles : fs[f] # Torn)
         => (Present("token") => Present("state")) /\ ~PreparedInvalid
    /\ \A b \in rss.bound :
         Present("profile") /\ fs["token"] = b[1] => fs["profile"].conn = b[2]
    /\ rss.owner > 0 => rss.owner \in {fs["pending"], fs["admin"]}

=============================================================================
