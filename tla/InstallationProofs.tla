------------------------- MODULE InstallationProofs -------------------------
(***************************************************************************)
(* How an installation moves on and how it ends: the upgrade and the       *)
(* removal.  Both change files that other processes read, and may stop     *)
(* between any two of their steps.  They share no variable, and their      *)
(* proofs no lemma.                                                        *)
(***************************************************************************)
EXTENDS UpdateCheck, Uninstall, TLAPS

---------------------------------------------------------------------------
(***************************************************************************)
(* For any repositories, publications and number of commands, upgrades go  *)
(* forward.  The processes share the cache and the installation without a  *)
(* lock, so nothing holds of the version installed when an installer runs; *)
(* what a process carries along is enough: the candidate it will install   *)
(* was compared with the version it was started from, and an `upgrade'     *)
(* never takes its candidate from the cache.                               *)
(***************************************************************************)

Statuses == {"none", "available", "current", "unavailable"}
UpdatePcs == {"idle", "fetch", "write", "done", "download", "install"}
SomeVersion == AllVersions \cup {NoVersion}
SomeRepository == Repository \cup {"none"}
Digests == {0} \cup (Nat \X Nat)
Results == [status : Statuses, current : SomeVersion, latest : SomeVersion, digest : Digests,
            repository : SomeRepository]
Updates == [pc : UpdatePcs, kind : {"check", "upgrade"}, current : SomeVersion, repo : SomeRepository,
            explicit : BOOLEAN, result : Results]

\* A candidate above the version a process runs, and of its family unless asked for.
Forward(u) ==
  /\ u.current \in AllVersions /\ u.result.latest \in AllVersions
  /\ VersionKey(u.result.latest) >= VersionKey(u.current)
  /\ u.explicit \/ VersionStage(u.result.latest) = VersionStage(u.current)

\* A result that says whose it is.
Signed(result) == result.current \in AllVersions /\ result.repository \in Repository

UpdateOK(u) ==
  /\ u.pc \in {"fetch", "write", "done"} => u.current \in AllVersions /\ u.repo \in Repository /\ ~u.explicit
  /\ u.pc = "write" => Signed(u.result)
  /\ u.pc \in {"write", "done"} /\ u.kind = "upgrade" /\ u.result.status = "available" => Forward(u)
  /\ u.pc \in {"download", "install"} => Forward(u)

UpdateShared ==
  /\ installed.version \in AllVersions /\ receiptRepo \in Repository
  /\ published \in [Repository -> Nat] /\ \A r \in Repository : published[r] <= Len(Publications[r])
  /\ upload \in Nat /\ cacheFresh \in BOOLEAN /\ temporaries \subseteq UpdateCommand
  /\ cacheFile \in Results /\ (cacheFile # NoResult => Signed(cacheFile))

UpInv ==
  /\ UpdateShared
  /\ upd \in [UpdateCommand -> Updates] /\ \A p \in UpdateCommand : UpdateOK(upd[p])

\* What a step does to the command it belongs to.
StepsForward(p) ==
  /\ upd[p].pc = "install" /\ installed' # installed
       => /\ VersionKey(installed'.version) >= VersionKey(upd[p].current)
          /\ upd[p].explicit \/ VersionStage(installed'.version) = VersionStage(upd[p].current)
  /\ upd[p].pc = "download" /\ upd'[p].pc = "install" => upd'[p].result = upd[p].result

GoesForward ==
  \A p \in UpdateCommand : upd'[p] # upd[p] => StepsForward(p)

---------------------------------------------------------------------------
(* Versions and their keys.                                                 *)

LEMMA VersionKeys ==
    ASSUME NEW v \in AllVersions
    PROVE  v \in Versions /\ VersionKey(v) \in Nat
  <1>1. v \in Versions
    <2>1. CASE v = FirstVersion
      BY Zenon, <2>1, UpdateAssumption
    <2>2. CASE v # FirstVersion
      <3>1. PICK r \in Repository : \E i \in DOMAIN Publications[r] : v = Publications[r][i]
        BY Zenon, <2>2 DEF AllVersions
      <3>2. Publications[r] \in Seq(Versions)
        BY Zenon, UpdateAssumption
      <3>. QED BY <3>1, <3>2
    <2>. QED BY Zenon, <2>1, <2>2
  <1>2. v.number \in Nat
    BY Zenon, <1>1 DEF Versions
  <1>. QED BY <1>1, <1>2 DEF VersionKey, StageRank

LEMMA DigestTypes ==
    ASSUME NEW v \in AllVersions, upload \in Nat
    PROVE  DigestOf(v) \in Digests
  BY Zenon, VersionKeys DEF DigestOf, Digests

LEMMA NoneTypes == NoResult \in Results /\ NoUpdate \in Updates /\ UpdateOK(NoUpdate) /\ NoUpdate.pc = "idle"
  <1>1. NoResult \in Results
    BY Zenon DEF NoResult, Results, Statuses, SomeVersion, Digests, SomeRepository
  <1>2. NoUpdate \in Updates /\ NoUpdate.pc = "idle"
    BY Zenon, <1>1 DEF NoUpdate, Updates, UpdatePcs, SomeVersion, SomeRepository
  <1>. QED BY Zenon, <1>1, <1>2 DEF UpdateOK

LEMMA LatestIsPublished ==
    ASSUME UpInv, NEW r \in Repository, NEW current, NEW v \in LatestRelease(r, current)
    PROVE  v \in AllVersions /\ VersionStage(v) = VersionStage(current)
  <1>1. PICK i \in Listed(r) : v = Publications[r][i] /\ VersionStage(Publications[r][i]) = VersionStage(current)
    BY Zenon DEF LatestRelease
  <1>2. published[r] \in Nat /\ published[r] <= Len(Publications[r]) /\ Publications[r] \in Seq(Versions)
    BY Zenon, UpdateAssumption DEF UpInv, UpdateShared
  <1>3. i \in DOMAIN Publications[r]
    BY <1>2 DEF Listed
  <1>4. Publications[r][i] \in {Publications[r][j] : j \in DOMAIN Publications[r]}
    BY Zenon, <1>3
  <1>5. Publications[r][i] \in AllVersions
    BY Zenon, <1>4 DEF AllVersions
  <1>. QED BY Zenon, <1>1, <1>5

---------------------------------------------------------------------------
(* Steps of a command.                                                      *)

\* A step that moves one command on, and nothing else but perhaps the cache.
LEMMA CommandMoves ==
    ASSUME UpInv, NEW p \in UpdateCommand, NEW u \in Updates, upd' = [upd EXCEPT ![p] = u], UpdateOK(u),
           UpdateShared', StepsForward(p)
    PROVE  UpInv' /\ GoesForward
  <1>1. upd \in [UpdateCommand -> Updates]
    BY Zenon DEF UpInv
  <1>2. upd' \in [UpdateCommand -> Updates] /\ upd'[p] = u /\ \A q \in UpdateCommand : q # p => upd'[q] = upd[q]
    BY Zenon, <1>1
  <1>3. \A q \in UpdateCommand : UpdateOK(upd'[q])
    BY Zenon, <1>2 DEF UpInv
  <1>4. UpInv'
    BY Zenon, <1>2, <1>3 DEF UpInv
  <1>5. GoesForward
    BY Zenon, <1>2 DEF GoesForward
  <1>. QED BY Zenon, <1>4, <1>5

LEMMA SharedKept ==
    ASSUME UpInv, UNCHANGED <<installed, receiptRepo, published, upload, cacheFile, cacheFresh>>,
           temporaries' \subseteq UpdateCommand
    PROVE  UpdateShared'
  BY Zenon DEF UpInv, UpdateShared

LEMMA CheckStartsKeeps ==
    ASSUME UpInv, NEW p \in UpdateCommand, NEW kind \in {"check", "upgrade"}, NEW refresh \in BOOLEAN,
           NEW o \in Repository \cup {"unset"}, CheckStarts(p, kind, refresh, o)
    PROVE  UpInv' /\ GoesForward
  <1>. DEFINE repo == ReleaseContext(o)
  <1>1. repo \in Repository /\ installed.version \in AllVersions /\ cacheFile \in Results /\ NoResult \in Results
    BY Zenon, NoneTypes DEF ReleaseContext, UpInv, UpdateShared
  <1>. HIDE DEF repo
  <1>2. PICK pc \in {"fetch", "done"}, result \in Results :
            /\ upd' = [upd EXCEPT ![p] = Checking(pc, kind, repo, result)]
            /\ pc = "done" => kind = "check"
    <2>1. CASE ~refresh /\ CacheAnswers(p, installed.version, repo)
      <3>1. upd' = [upd EXCEPT ![p] = Checking("done", kind, repo, cacheFile)]
        BY Zenon, <2>1 DEF CheckStarts, repo
      <3>2. kind = "check"
        BY Zenon, <2>1 DEF CheckStarts
      <3>. QED BY Zenon, <1>1, <3>1, <3>2
    <2>2. CASE ~(~refresh /\ CacheAnswers(p, installed.version, repo))
      <3>1. upd' = [upd EXCEPT ![p] = Checking("fetch", kind, repo, NoResult)]
        BY Zenon, <2>2 DEF CheckStarts, repo
      <3>2. "fetch" # "done"
        BY Zenon
      <3>. QED BY Zenon, <1>1, <3>1, <3>2
    <2>. QED BY Zenon, <2>1, <2>2
  <1>. DEFINE u == Checking(pc, kind, repo, result)
  <1>3. /\ u \in Updates /\ u.pc = pc /\ u.kind = kind /\ u.current = installed.version /\ u.repo = repo
        /\ u.explicit = FALSE
    BY Zenon, <1>1 DEF Checking, Updates, UpdatePcs, SomeVersion, SomeRepository
  <1>. HIDE DEF u
  <1>4. UpdateOK(u)
    BY Zenon, <1>1, <1>2, <1>3 DEF UpdateOK
  <1>5. UpdateShared'
    <2>1. temporaries' \subseteq UpdateCommand
      BY Zenon DEF UpInv, UpdateShared, CheckStarts
    <2>. QED BY Zenon, <2>1, SharedKept DEF CheckStarts
  <1>6. StepsForward(p)
    BY Zenon DEF StepsForward, CheckStarts
  <1>. QED BY Zenon, <1>2, <1>3, <1>4, <1>5, <1>6, CommandMoves DEF u

LEMMA FetchesKeeps ==
    ASSUME UpInv, NEW p \in UpdateCommand, Fetches(p)
    PROVE  UpInv' /\ GoesForward
  <1>. DEFINE c == upd[p]
  <1>1. c.pc = "fetch" /\ c \in Updates /\ UpdateOK(c)
    BY Zenon DEF UpInv, Fetches
  <1>2. PICK result \in {Unavailable(p)} \cup {Concluded(p, v) : v \in LatestRelease(upd[p].repo, upd[p].current)} :
            upd' = [upd EXCEPT ![p] = [[@ EXCEPT !.pc = "write"] EXCEPT !.result = result]]
    BY Zenon DEF Fetches
  <1>3. c.current \in AllVersions /\ c.repo \in Repository /\ c.explicit = FALSE /\ upload \in Nat
    BY Zenon, <1>1 DEF UpdateOK, Updates, UpInv, UpdateShared
  <1>4. /\ result \in Results /\ Signed(result)
        /\ result.status = "available" =>
               /\ result.latest \in AllVersions /\ VersionKey(result.latest) > VersionKey(c.current)
               /\ VersionStage(result.latest) = VersionStage(c.current)
    <2>1. CASE result = Unavailable(p)
      BY Zenon, <1>3, <2>1 DEF Unavailable, Results, Statuses, SomeVersion, SomeRepository, Digests, Signed
    <2>2. ASSUME NEW v \in LatestRelease(c.repo, c.current), result = Concluded(p, v)
          PROVE  /\ result \in Results /\ Signed(result)
                 /\ result.status = "available" =>
                        /\ result.latest \in AllVersions /\ VersionKey(result.latest) > VersionKey(c.current)
                        /\ VersionStage(result.latest) = VersionStage(c.current)
      <3>1. v \in AllVersions /\ VersionStage(v) = VersionStage(c.current)
        BY Zenon, <1>3, <2>2, LatestIsPublished
      <3>2. DigestOf(v) \in Digests
        BY Zenon, <1>3, <3>1, DigestTypes
      <3>. QED BY Zenon, <1>3, <2>2, <3>1, <3>2 DEF Concluded, Results, Statuses, SomeVersion, SomeRepository, Signed
    <2>. QED BY Zenon, <1>2, <2>1, <2>2
  <1>. DEFINE u == [[c EXCEPT !.pc = "write"] EXCEPT !.result = result]
  <1>5. /\ u \in Updates /\ u.pc = "write" /\ u.result = result /\ u.current = c.current /\ u.repo = c.repo
        /\ u.explicit = FALSE
    BY Zenon, <1>1, <1>3, <1>4 DEF Updates, UpdatePcs
  <1>6. upd' = [upd EXCEPT ![p] = u]
    BY Zenon, <1>2 DEF UpInv
  <1>. HIDE DEF u
  <1>7. VersionKey(c.current) \in Nat /\ (result.latest \in AllVersions => VersionKey(result.latest) \in Nat)
    BY Zenon, <1>3, VersionKeys
  <1>8. UpdateOK(u)
    BY <1>3, <1>4, <1>5, <1>7 DEF UpdateOK, Forward
  <1>9. UpdateShared'
    <2>1. temporaries' \subseteq UpdateCommand
      BY Zenon DEF UpInv, UpdateShared, Fetches
    <2>. QED BY Zenon, <2>1, SharedKept DEF Fetches
  <1>10. StepsForward(p)
    BY Zenon, <1>1 DEF StepsForward
  <1>. QED BY Zenon, <1>5, <1>6, <1>8, <1>9, <1>10, CommandMoves

LEMMA WritesCacheKeeps ==
    ASSUME UpInv, NEW p \in UpdateCommand, WritesCache(p)
    PROVE  UpInv' /\ GoesForward
  <1>. DEFINE c == upd[p]
              u == [c EXCEPT !.pc = "done"]
  <1>1. c.pc = "write" /\ c \in Updates /\ UpdateOK(c)
    BY Zenon DEF UpInv, WritesCache
  <1>2. /\ u \in Updates /\ u.pc = "done" /\ u.result = c.result /\ u.current = c.current /\ u.repo = c.repo
        /\ u.explicit = c.explicit /\ u.kind = c.kind
    BY Zenon, <1>1 DEF Updates, UpdatePcs
  <1>3. upd' = [upd EXCEPT ![p] = u]
    BY Zenon DEF WritesCache, UpInv
  <1>. HIDE DEF u
  <1>4. UpdateOK(u)
    BY Zenon, <1>1, <1>2 DEF UpdateOK, Forward
  <1>5. c.result \in Results /\ Signed(c.result)
    BY Zenon, <1>1 DEF Updates, UpdateOK
  <1>6. UpdateShared'
    BY Zenon, <1>5 DEF UpInv, UpdateShared, WritesCache
  <1>7. StepsForward(p)
    BY Zenon, <1>1 DEF StepsForward
  <1>. QED BY Zenon, <1>2, <1>3, <1>4, <1>6, <1>7, CommandMoves

LEMMA CheckReturnsKeeps ==
    ASSUME UpInv, NEW p \in UpdateCommand, CheckReturns(p)
    PROVE  UpInv' /\ GoesForward
  <1>. DEFINE c == upd[p]
              u == IF c.kind = "upgrade" /\ c.result.status = "available" THEN [c EXCEPT !.pc = "download"] ELSE NoUpdate
  <1>1. c.pc = "done" /\ c \in Updates /\ UpdateOK(c)
    BY Zenon DEF UpInv, CheckReturns
  <1>2. upd' = [upd EXCEPT ![p] = u]
    BY Zenon DEF CheckReturns
  <1>3. u \in Updates /\ UpdateOK(u)
    <2>1. CASE c.kind = "upgrade" /\ c.result.status = "available"
      <3>1. /\ u \in Updates /\ u.pc = "download" /\ u.result = c.result /\ u.current = c.current
            /\ u.explicit = c.explicit
        BY Zenon, <1>1, <2>1 DEF Updates, UpdatePcs
      <3>. HIDE DEF u
      <3>. QED BY Zenon, <1>1, <2>1, <3>1 DEF UpdateOK, Forward
    <2>2. CASE ~(c.kind = "upgrade" /\ c.result.status = "available")
      BY Zenon, <2>2, NoneTypes
    <2>. QED BY Zenon, <2>1, <2>2
  <1>4. UpdateShared'
    <2>1. temporaries' \subseteq UpdateCommand
      BY Zenon DEF UpInv, UpdateShared, CheckReturns
    <2>. QED BY Zenon, <2>1, SharedKept DEF CheckReturns
  <1>5. StepsForward(p)
    BY Zenon, <1>1 DEF StepsForward
  <1>. QED BY Zenon, <1>2, <1>3, <1>4, <1>5, CommandMoves

LEMMA UpgradeToKeeps ==
    ASSUME UpInv, NEW p \in UpdateCommand, NEW v \in AllVersions, UpgradeTo(p, v)
    PROVE  UpInv' /\ GoesForward
  <1>. DEFINE result == [status |-> "none", current |-> NoVersion, latest |-> v, digest |-> DigestOf(v),
                         repository |-> "none"]
              u == [pc |-> "download", kind |-> "upgrade", current |-> installed.version, repo |-> "none",
                    explicit |-> TRUE, result |-> result]
  <1>1. upd' = [upd EXCEPT ![p] = u] /\ upd[p].pc = "idle" /\ VersionKey(v) >= VersionKey(installed.version)
    BY Zenon DEF UpgradeTo, RefAccepted
  <1>2. installed.version \in AllVersions /\ DigestOf(v) \in Digests
    BY Zenon, DigestTypes DEF UpInv, UpdateShared
  <1>3. result \in Results /\ result.latest = v
    BY Zenon, <1>2 DEF Results, Statuses, SomeVersion, SomeRepository
  <1>. HIDE DEF result
  <1>4. /\ u \in Updates /\ u.pc = "download" /\ u.result = result /\ u.current = installed.version
        /\ u.explicit = TRUE
    BY Zenon, <1>2, <1>3 DEF Updates, UpdatePcs, SomeVersion, SomeRepository
  <1>. HIDE DEF u
  <1>5. UpdateOK(u)
    BY Zenon, <1>1, <1>2, <1>3, <1>4 DEF UpdateOK, Forward
  <1>6. UpdateShared'
    <2>1. temporaries' \subseteq UpdateCommand
      BY Zenon DEF UpInv, UpdateShared, UpgradeTo
    <2>. QED BY Zenon, <2>1, SharedKept DEF UpgradeTo
  <1>7. StepsForward(p)
    BY Zenon, <1>1 DEF StepsForward
  <1>. QED BY Zenon, <1>1, <1>4, <1>5, <1>6, <1>7, CommandMoves

\* A replaced asset no longer has the announced digest, and is not kept.
LEMMA DownloadsKeeps ==
    ASSUME UpInv, NEW p \in UpdateCommand, Downloads(p)
    PROVE  UpInv' /\ GoesForward
  <1>. DEFINE c == upd[p]
              res == [c.result EXCEPT !.digest = DigestOf(c.result.latest)]
              u == [[c EXCEPT !.pc = "install"] EXCEPT !.result = res]
  <1>1. c.pc = "download" /\ c \in Updates /\ UpdateOK(c) /\ upd \in [UpdateCommand -> Updates]
    BY Zenon DEF UpInv, Downloads
  <1>2. UNCHANGED <<installed, receiptRepo, published, upload, cacheFile, cacheFresh>>
    BY Zenon DEF Downloads
  <1>3. CASE DigestMatches(p) /\ temporaries' = temporaries \cup {p} /\ upd' = [upd EXCEPT ![p] = u]
    <2>1. c.result \in Results /\ DigestOf(c.result.latest) = c.result.digest
      BY Zenon, <1>1, <1>3 DEF Updates, DigestMatches
    <2>2. res = c.result
      BY Zenon, <2>1 DEF Results
    <2>. HIDE DEF res
    <2>3. /\ u \in Updates /\ u.pc = "install" /\ u.result = c.result /\ u.current = c.current
          /\ u.explicit = c.explicit
      BY Zenon, <1>1, <2>1, <2>2 DEF Updates, UpdatePcs
    <2>. HIDE DEF u
    <2>4. UpdateOK(u)
      BY Zenon, <1>1, <2>3 DEF UpdateOK, Forward
    <2>5. UpdateShared'
      <3>1. temporaries' \subseteq UpdateCommand
        BY Zenon, <1>3 DEF UpInv, UpdateShared
      <3>. QED BY Zenon, <1>2, <3>1, SharedKept
    <2>6. StepsForward(p)
      <3>1. upd'[p] = u
        BY Zenon, <1>1, <1>3
      <3>. QED BY Zenon, <1>1, <2>3, <3>1 DEF StepsForward
    <2>. QED BY Zenon, <1>3, <2>3, <2>4, <2>5, <2>6, CommandMoves
  <1>4. CASE upd' = [upd EXCEPT ![p] = NoUpdate] /\ UNCHANGED temporaries
    <2>1. UpdateShared'
      <3>1. temporaries' \subseteq UpdateCommand
        BY Zenon, <1>4 DEF UpInv, UpdateShared
      <3>. QED BY Zenon, <1>2, <3>1, SharedKept
    <2>2. StepsForward(p)
      <3>1. upd'[p] = NoUpdate
        BY Zenon, <1>1, <1>4
      <3>. QED BY Zenon, <1>1, <3>1, NoneTypes DEF StepsForward
    <2>. QED BY Zenon, <1>4, <2>1, <2>2, NoneTypes, CommandMoves
  <1>5. \/ DigestMatches(p) /\ temporaries' = temporaries \cup {p} /\ upd' = [upd EXCEPT ![p] = u]
        \/ upd' = [upd EXCEPT ![p] = NoUpdate] /\ UNCHANGED temporaries
    BY Zenon, <1>1 DEF Downloads
  <1>. QED BY Zenon, <1>3, <1>4, <1>5

LEMMA RunsInstallerKeeps ==
    ASSUME UpInv, NEW p \in UpdateCommand, RunsInstaller(p)
    PROVE  UpInv' /\ GoesForward
  <1>. DEFINE c == upd[p]
  <1>1. c.pc = "install" /\ UpdateOK(c) /\ upd' = [upd EXCEPT ![p] = NoUpdate]
    BY Zenon DEF UpInv, RunsInstaller
  <1>2. Forward(c)
    BY Zenon, <1>1 DEF UpdateOK
  <1>3. installed' = installed \/ installed'.version = c.result.latest
    BY DEF RunsInstaller
  <1>4. UpdateShared'
    BY Zenon, <1>2, <1>3 DEF UpInv, UpdateShared, RunsInstaller, Forward
  <1>5. StepsForward(p)
    BY Zenon, <1>1, <1>2, <1>3 DEF StepsForward, Forward
  <1>. QED BY Zenon, <1>1, <1>4, <1>5, NoneTypes, CommandMoves

---------------------------------------------------------------------------
(* The theorems.                                                            *)

LEMMA UpdateStarts ==
    ASSUME UpdateInit
    PROVE  UpInv
  <1>1. FirstVersion \in AllVersions
    BY Zenon DEF AllVersions
  <1>2. \A r \in Repository : 0 <= Len(Publications[r])
    BY UpdateAssumption
  <1>3. UpdateShared
    BY Zenon, <1>1, <1>2, NoneTypes DEF UpdateInit, UpdateShared
  <1>4. upd \in [UpdateCommand -> Updates] /\ \A p \in UpdateCommand : upd[p] = NoUpdate
    BY Zenon, NoneTypes DEF UpdateInit
  <1>. QED BY Zenon, <1>3, <1>4, NoneTypes DEF UpInv

LEMMA UpdateSteps ==
    ASSUME UpInv, [UpdateNext]_updateVars
    PROVE  UpInv' /\ GoesForward
  <1>1. CASE upd' = upd /\ UpdateShared'
    BY Zenon, <1>1 DEF UpInv, GoesForward
  <1>2. CASE UNCHANGED updateVars
    <2>1. upd' = upd /\ UpdateShared'
      BY Zenon, <1>2 DEF updateVars, UpInv, UpdateShared
    <2>. QED BY Zenon, <1>1, <2>1
  <1>3. ASSUME NEW r \in Repository, Publishes(r) PROVE upd' = upd /\ UpdateShared'
    <2>1. published' \in [Repository -> Nat] /\ \A q \in Repository : published'[q] <= Len(Publications[q])
      <3>1. Len(Publications[r]) \in Nat /\ published[r] \in Nat
        BY UpdateAssumption DEF UpInv, UpdateShared
      <3>. QED BY <1>3, <3>1 DEF Publishes, UpInv, UpdateShared
    <2>. QED BY Zenon, <1>3, <2>1 DEF Publishes, UpInv, UpdateShared
  <1>4. CASE Uploads \/ CacheExpires
    <2>1. upd' = upd /\ UpdateShared'
      <3>1. CASE Uploads
        BY <3>1 DEF Uploads, UpInv, UpdateShared
      <3>2. CASE CacheExpires
        BY Zenon, <3>2 DEF CacheExpires, UpInv, UpdateShared
      <3>. QED BY Zenon, <1>4, <3>1, <3>2
    <2>. QED BY Zenon, <1>1, <2>1
  <1>5. ASSUME NEW p \in UpdateCommand, UpdateStep(p) PROVE UpInv' /\ GoesForward
    BY Zenon, <1>5, CheckStartsKeeps, FetchesKeeps, WritesCacheKeeps, CheckReturnsKeeps, UpgradeToKeeps,
       DownloadsKeeps, RunsInstallerKeeps DEF UpdateStep
  <1>. QED BY Zenon, <1>1, <1>2, <1>3, <1>4, <1>5 DEF UpdateNext

\* Whatever the update commands do at once, each carries a candidate it has compared
\* with its own version.  (check_for_update, cmd_upgrade)
THEOREM UpdateInvariance == UpdateSpec => []UpInv
  BY PTL, UpdateStarts, UpdateSteps DEF UpdateSpec

\* The cache, the receipt and the commands keep their types.  (_read_cache, _write_cache)
THEOREM UpdateTypeCorrect == UpdateSpec => []UpdateTypeOK
  <1>1. UpInv => UpdateTypeOK
    <2>. SUFFICES ASSUME UpInv PROVE UpdateTypeOK
      BY Zenon
    <2>1. \A p \in UpdateCommand : upd[p].pc \in UpdatePcs
      BY Zenon DEF UpInv, Updates
    <2>2. \A r \in Repository : published[r] \in 0 .. Len(Publications[r])
      BY UpdateAssumption DEF UpInv, UpdateShared
    <2>. QED BY Zenon, <2>1, <2>2 DEF UpdateTypeOK, UpInv, UpdateShared, Signed, UpdatePcs
  <1>. QED BY PTL, <1>1, UpdateInvariance

\* No upgrade installs a version below the one it was started from, nor leaves its
\* family unasked, nor runs an installer other than the one announced.  (cmd_upgrade,
\* _latest_release, download_release_installer)
THEOREM UpgradesGoForward == UpdateSpec => UpgradeGoesForward
  <1>1. ASSUME UpInv, [UpdateNext]_updateVars
        PROVE  [\A p \in UpdateCommand :
                  /\ upd[p].pc = "install" /\ installed' # installed /\ upd'[p] # upd[p]
                       => /\ VersionKey(installed'.version) >= VersionKey(upd[p].current)
                          /\ upd[p].explicit \/ VersionStage(installed'.version) = VersionStage(upd[p].current)
                  /\ upd[p].pc = "download" /\ upd'[p].pc = "install"
                       => upd'[p].result = upd[p].result]_updateVars
    <2>1. GoesForward
      BY Zenon, <1>1, UpdateSteps
    <2>2. ASSUME NEW p \in UpdateCommand, upd[p].pc = "download", upd'[p].pc = "install" PROVE upd'[p] # upd[p]
      <3>1. "download" # "install"
        BY Zenon
      <3>. QED BY Zenon, <2>2, <3>1
    <2>. QED BY Zenon, <2>1, <2>2 DEF GoesForward, StepsForward
  <1>. QED BY PTL, <1>1, UpdateInvariance DEF UpdateSpec, UpgradeGoesForward

---------------------------------------------------------------------------
(***************************************************************************)
(* For any sequence of runtime generations and shell profiles, any         *)
(* archive destinations and any number of outside writes: an uninstall     *)
(* that died anywhere can be resumed, and nothing foreign is lost.         *)
(*                                                                         *)
(* The invariant says what a command knows at each of its steps: the       *)
(* update-check definitions went before the service, the service before    *)
(* the second plan, links and launchers before the first generation.  So   *)
(* whenever it dies, what is left still has what the next plan needs to    *)
(* recognise it.  For the files of others it carries the list of late      *)
(* changes and, through the purge, that the content prepared is at most    *)
(* the content archived, which is at most the content on disk, until the   *)
(* check before the first deletion makes them equal.                       *)
(***************************************************************************)

\* Where a command may be.  From ChecksGone on the update-check definitions are
\* gone, from ServiceGone on the service, and AfterRecheck the plan is the one the
\* command works off.
RemovalPcs == {"remove", "generation"}
AfterRecheck == {"archive", "purge", "purging", "profiles", "edit"} \cup RemovalPcs
ServiceGone == {"recheck"} \cup AfterRecheck
ChecksGone == {"stop service"} \cup ServiceGone
UninstallPcs == {"idle", "check service", "profiles planned", "edit only"} \cup ChecksGone

GenerationEntries == Packaged \cup {"added"}
GenStates == [present : BOOLEAN, receipt : {"none", "install", "removal"}, entries : SUBSET GenerationEntries]
ProfileStates == [block : {"none", "exact", "edited"}, text : Nat]
Paths == Link \cup Launcher \cup Gen
Archives == [StateFile -> Nat] \cup {NoArchive}

FilesOK ==
  /\ gen \in [Gen -> GenStates] /\ link \in [Link -> Gen \cup {Unlinked}]
  /\ launcher \in [Launcher -> {"absent", "managed", "edited"}]
  /\ unit \in BOOLEAN /\ checkUnits \in SUBSET CheckUnit
  /\ profile \in [Profile -> ProfileStates]
  /\ stateFile \in [StateFile -> Nat] /\ archive \in [Destinations -> Archives]
  /\ \A g \in Gen : gen[g].present \/ gen[g] = NoGeneration

\* The command's record, by what it holds.
Held(pc, plan, todo, to, files, prepared, entries) ==
  [pc |-> pc, plan |-> plan, todo |-> todo, archiveTo |-> to, purge |-> files,
   prepared |-> prepared, entries |-> entries]
IsCommand(u) == u = Held(u.pc, u.plan, u.todo, u.archiveTo, u.purge, u.prepared, u.entries)

Plans == [remove : SUBSET Paths, edits : SUBSET Profile]

CommandOK(u) ==
  /\ IsCommand(u) /\ u.pc \in UninstallPcs /\ u.plan \in Plans
  /\ u.todo \subseteq u.plan.remove \cup u.plan.edits
  /\ u.archiveTo \in Destinations \cup {"none"} /\ u.purge \in SUBSET StateFile
  /\ u.entries \in SUBSET GenerationEntries

OthersOK ==
  /\ installing \in Gen \cup {Unlinked} /\ late \in SUBSET Gen /\ overlapped \in BOOLEAN
  /\ budget \in [write : Nat, damage : Nat, install : Nat]

\* What a file added to a generation, and a state file, are protected by.
AddedIsLate(u) ==
  /\ u.pc \in AfterRecheck => \A g \in Gen : "added" \in gen[g].entries => g \in late
  /\ u.pc = "generation" /\ "added" \in u.entries
       => \A g \in Gen : First(RemovalOrder, u.todo, g) => g \in late

PurgeOK(u, files, shown) ==
  /\ u.pc \in {"archive", "purge", "purging"} => \A f \in u.purge : u.prepared[f] \in Nat
  /\ u.pc \in {"archive", "purge"} => \A f \in u.purge : u.prepared[f] <= files[f]
  /\ u.pc \in {"purge", "purging"} /\ u.archiveTo # "none" =>
       /\ shown[u.archiveTo] # NoArchive
       /\ \A f \in u.purge : u.prepared[f] <= shown[u.archiveTo][f]
  /\ u.pc = "purge" /\ u.archiveTo # "none" => \A f \in u.purge : shown[u.archiveTo][f] <= files[f]
  /\ u.pc = "purging" /\ u.archiveTo # "none" => \A f \in u.purge : shown[u.archiveTo][f] = u.prepared[f]

\* While nobody else interferes.
Quiet == ~overlapped /\ budget.damage = 0

SealedOrUnderway(g) == GenerationAccepted(g) \/ (g = installing /\ gen[g] = Unsealed)

AllSealed == \A g \in Gen : SealedOrUnderway(g)
LaunchersKnown ==
  /\ \A l \in Launcher : launcher[l] # "edited"
  /\ installing = Unlinked => LaunchersAccepted
UnitKnown == unit => \E g \in Gen : gen[g].present
ChecksKnown == checkUnits # {} => launcher["seckit"] # "absent"
InstallsAlone ==
  installing # Unlinked =>
    un.pc = "idle" /\ gen[installing] = Unsealed /\ \A l \in Launcher : launcher[l] = "managed"

QuietFiles ==
  LinksResolve /\ ProfilesAccepted /\ AllSealed /\ LaunchersKnown /\ UnitKnown /\ ChecksKnown
  /\ InstallsAlone

\* What the running command has in hand.
QuietCommand(u) ==
  /\ u.pc \in ChecksGone => checkUnits = {}
  /\ u.pc \in ServiceGone => unit = FALSE
  /\ u.pc \in AfterRecheck \ RemovalPcs =>
       /\ \A l \in Link : link[l] # Unlinked => l \in u.plan.remove
       /\ \A l \in Launcher : launcher[l] # "absent" => l \in u.plan.remove
  /\ u.pc \in RemovalPcs =>
       /\ \A l \in Link : link[l] # Unlinked => l \in u.todo
       /\ \A l \in Launcher : launcher[l] # "absent" => l \in u.todo
  /\ u.pc = "generation" =>
       \A g \in Gen : First(RemovalOrder, u.todo, g) =>
         gen[g].receipt # "install" /\ gen[g].entries = u.entries

UInv ==
  /\ FilesOK /\ CommandOK(un) /\ OthersOK
  /\ AddedIsLate(un) /\ PurgeOK(un, stateFile, archive)
  /\ Quiet => QuietFiles /\ QuietCommand(un)

----------------------------------------------------------------------------

LEMMA CommandParts ==
  ASSUME NEW u, NEW pc, NEW plan, NEW todo, NEW to, NEW files, NEW prepared, NEW entries,
         u = Held(pc, plan, todo, to, files, prepared, entries)
  PROVE  /\ u.pc = pc /\ u.plan = plan /\ u.todo = todo /\ u.archiveTo = to
         /\ u.purge = files /\ u.prepared = prepared /\ u.entries = entries
         /\ IsCommand(u)
  BY Zenon DEF Held, IsCommand

LEMMA CommandSet ==
  ASSUME NEW u, IsCommand(u), NEW x
  PROVE  /\ [u EXCEPT !.pc = x]
              = Held(x, u.plan, u.todo, u.archiveTo, u.purge, u.prepared, u.entries)
         /\ [u EXCEPT !.todo = x]
              = Held(u.pc, u.plan, x, u.archiveTo, u.purge, u.prepared, u.entries)
         /\ [u EXCEPT !.purge = x]
              = Held(u.pc, u.plan, u.todo, u.archiveTo, x, u.prepared, u.entries)
         /\ [u EXCEPT !.prepared = x]
              = Held(u.pc, u.plan, u.todo, u.archiveTo, u.purge, x, u.entries)
         /\ [u EXCEPT !.entries = x]
              = Held(u.pc, u.plan, u.todo, u.archiveTo, u.purge, u.prepared, x)
  BY SMT DEF Held, IsCommand

LEMMA CommandNext ==
  ASSUME NEW pc, NEW plan, NEW todo, NEW to, NEW files, NEW prepared, NEW entries,
         un' = Held(pc, plan, todo, to, files, prepared, entries)
  PROVE  /\ un'.pc = pc /\ un'.plan = plan /\ un'.todo = todo /\ un'.archiveTo = to
         /\ un'.purge = files /\ un'.prepared = prepared /\ un'.entries = entries
         /\ IsCommand(un')
  BY Zenon DEF Held, IsCommand

LEMMA GotoParts ==
  ASSUME IsCommand(un), NEW pc
  PROVE  /\ Goto(pc).pc = pc /\ Goto(pc).plan = un.plan /\ Goto(pc).todo = un.todo
         /\ Goto(pc).archiveTo = un.archiveTo /\ Goto(pc).purge = un.purge
         /\ Goto(pc).prepared = un.prepared /\ Goto(pc).entries = un.entries /\ IsCommand(Goto(pc))
  <1>1. Goto(pc) = Held(pc, un.plan, un.todo, un.archiveTo, un.purge, un.prepared, un.entries)
    BY Zenon, CommandSet DEF Goto
  <1> QED
    BY SMT, <1>1 DEF Held, IsCommand

LEMMA GotoSet ==
  ASSUME IsCommand(un), NEW pc, NEW x
  PROVE  /\ [Goto(pc) EXCEPT !.prepared = x]
              = Held(pc, un.plan, un.todo, un.archiveTo, un.purge, x, un.entries)
         /\ [Goto(pc) EXCEPT !.entries = x]
              = Held(pc, un.plan, un.todo, un.archiveTo, un.purge, un.prepared, x)
         /\ [Goto(pc) EXCEPT !.todo = x]
              = Held(pc, un.plan, x, un.archiveTo, un.purge, un.prepared, un.entries)
  <1> DEFINE u == Goto(pc)
  <1>1. /\ u.pc = pc /\ u.plan = un.plan /\ u.todo = un.todo /\ u.archiveTo = un.archiveTo
        /\ u.purge = un.purge /\ u.prepared = un.prepared /\ u.entries = un.entries /\ IsCommand(u)
    BY Zenon, GotoParts
  <1> HIDE DEF u
  <1>2. /\ [u EXCEPT !.prepared = x] = Held(pc, un.plan, un.todo, un.archiveTo, un.purge, x, un.entries)
        /\ [u EXCEPT !.entries = x] = Held(pc, un.plan, un.todo, un.archiveTo, un.purge, un.prepared, x)
        /\ [u EXCEPT !.todo = x] = Held(pc, un.plan, x, un.archiveTo, un.purge, un.prepared, un.entries)
    BY SMT, <1>1 DEF Held, IsCommand
  <1> QED
    BY Zenon, <1>2 DEF u

LEMMA TodoSet ==
  ASSUME IsCommand(un), NEW pc, NEW x, NEW y
  PROVE  [[Goto(pc) EXCEPT !.todo = x] EXCEPT !.prepared = y]
           = Held(pc, un.plan, x, un.archiveTo, un.purge, y, un.entries)
  <1> DEFINE u == [Goto(pc) EXCEPT !.todo = x]
  <1>1. u = Held(pc, un.plan, x, un.archiveTo, un.purge, un.prepared, un.entries)
    BY Zenon, GotoSet
  <1>2. /\ u.pc = pc /\ u.plan = un.plan /\ u.todo = x /\ u.archiveTo = un.archiveTo
        /\ u.purge = un.purge /\ u.prepared = un.prepared /\ u.entries = un.entries /\ IsCommand(u)
    BY ZenonT(30), <1>1 DEF Held, IsCommand
  <1> HIDE DEF u
  <1>3. [u EXCEPT !.prepared = y] = Held(pc, un.plan, x, un.archiveTo, un.purge, y, un.entries)
    BY SMT, <1>2 DEF Held, IsCommand
  <1> QED
    BY Zenon, <1>3 DEF u

LEMMA OnlyOneFirst ==
  ASSUME NEW S, NEW order \in Seq(S), NEW listed, NEW p, NEW q,
         First(order, listed, p), First(order, listed, q)
  PROVE  p = q /\ p \in listed
  <1>1. PICK i \in DOMAIN order : order[i] = p /\ p \in listed /\ \A j \in 1..(i - 1) : order[j] \notin listed
    BY Zenon DEF First
  <1>2. PICK k \in DOMAIN order : order[k] = q /\ q \in listed /\ \A j \in 1..(k - 1) : order[j] \notin listed
    BY Zenon DEF First
  <1>3. i \in Nat /\ k \in Nat /\ i >= 1 /\ k >= 1
    BY <1>1, <1>2
  <1>4. i \notin 1..(k - 1) /\ k \notin 1..(i - 1)
    BY Zenon, <1>1, <1>2
  <1>5. i = k
    BY <1>3, <1>4
  <1> QED
    BY Zenon, <1>1, <1>2, <1>5

LEMMA RemovalOrderIs == RemovalOrder \in Seq(Paths)
  BY UninstallAssumption DEF RemovalOrder, Paths, Link, Launcher

\* A generation comes last.
LEMMA GenerationsLast ==
  ASSUME NEW listed, NEW g \in Gen, First(RemovalOrder, listed, g)
  PROVE  g \in listed /\ \A l \in Link \cup Launcher : l \notin listed
  <1>1. PICK i \in DOMAIN RemovalOrder :
          /\ RemovalOrder[i] = g /\ g \in listed /\ \A j \in 1..(i - 1) : RemovalOrder[j] \notin listed
    BY Zenon DEF First
  <1>2. /\ RemovalOrder[1] = "current" /\ RemovalOrder[2] = "previous"
        /\ RemovalOrder[3] = "seckit" /\ RemovalOrder[4] = "seckit-mcp"
    BY UninstallAssumption DEF RemovalOrder
  <1>3. g \notin {"current", "previous", "seckit", "seckit-mcp"}
    BY Zenon, UninstallAssumption DEF Link, Launcher
  <1>4. i \in Nat /\ i >= 1
    BY <1>1, RemovalOrderIs
  <1>5. i > 4
    BY <1>1, <1>2, <1>3, <1>4
  <1> QED
    BY <1>1, <1>2, <1>4, <1>5 DEF Link, Launcher

----------------------------------------------------------------------------

\* What a step may never do, in three parts.
AddedKept == \A g \in Gen : "added" \in gen[g].entries /\ "added" \notin gen'[g].entries => g \in late
PurgedKept ==
  \A f \in StateFile :
    stateFile[f] # 0 /\ stateFile'[f] = 0 /\ un.archiveTo # "none"
      => archive[un.archiveTo] # NoArchive /\ archive[un.archiveTo][f] = stateFile[f]
TextKept == \A p \in Profile : profile'[p].text >= profile[p].text
NothingLost == AddedKept /\ PurgedKept /\ TextKept

LEMMA KeptUnmoved ==
  ASSUME FilesOK
  PROVE  /\ UNCHANGED gen => AddedKept
         /\ UNCHANGED stateFile => PurgedKept
         /\ UNCHANGED profile => TextKept
  <1>1. \A p \in Profile : profile[p].text \in Nat
    BY Zenon DEF FilesOK, ProfileStates
  <1>2. UNCHANGED profile => TextKept
    BY <1>1 DEF TextKept
  <1> QED
    BY Zenon, <1>2 DEF AddedKept, PurgedKept

\* A property of the files stays while nothing it reads changes.
LEMMA QuietUnmoved ==
  /\ UNCHANGED <<link, gen>> /\ LinksResolve => LinksResolve'
  /\ UNCHANGED profile /\ ProfilesAccepted => ProfilesAccepted'
  /\ UNCHANGED <<gen, installing>> /\ AllSealed => AllSealed'
  /\ UNCHANGED <<launcher, gen, installing>> /\ LaunchersKnown => LaunchersKnown'
  /\ UNCHANGED <<unit, gen>> /\ UnitKnown => UnitKnown'
  /\ UNCHANGED <<checkUnits, launcher>> /\ ChecksKnown => ChecksKnown'
  /\ UNCHANGED <<installing, gen, launcher>> /\ InstallsAlone /\ (installing = Unlinked \/ un'.pc = "idle")
       => InstallsAlone'
  <1>1. UNCHANGED <<link, gen>> /\ LinksResolve => LinksResolve'
    BY Zenon DEF LinksResolve
  <1>2. UNCHANGED profile /\ ProfilesAccepted => ProfilesAccepted'
    BY Zenon DEF ProfilesAccepted
  <1>3. UNCHANGED <<gen, installing>> /\ AllSealed => AllSealed'
    BY Zenon DEF AllSealed, SealedOrUnderway, GenerationAccepted, EmptyDirectory
  <1>4. UNCHANGED <<launcher, gen, installing>> /\ LaunchersKnown => LaunchersKnown'
    BY Zenon DEF LaunchersKnown, LaunchersAccepted, HasReceipt
  <1>5. UNCHANGED <<unit, gen>> /\ UnitKnown => UnitKnown'
    BY Zenon DEF UnitKnown
  <1>6. UNCHANGED <<checkUnits, launcher>> /\ ChecksKnown => ChecksKnown'
    BY Zenon DEF ChecksKnown
  <1>7. UNCHANGED <<installing, gen, launcher>> /\ InstallsAlone /\ (installing = Unlinked \/ un'.pc = "idle")
          => InstallsAlone'
    BY Zenon DEF InstallsAlone
  <1> QED
    BY Zenon, <1>1, <1>2, <1>3, <1>4, <1>5, <1>6, <1>7

LEMMA QuietRunsAlone ==
  ASSUME UInv, Quiet, un.pc # "idle"
  PROVE  installing = Unlinked
  BY Zenon DEF UInv, QuietFiles, InstallsAlone

\* A step of the command that changes no file.
LEMMA CommandSteps ==
  ASSUME UInv, UNCHANGED <<Files, Outside, budget>>,
         CommandOK(un)', late' \in SUBSET Gen, AddedIsLate(un)', PurgeOK(un, stateFile, archive)',
         Quiet => installing = Unlinked \/ un'.pc = "idle",
         Quiet => QuietCommand(un)'
  PROVE  UInv' /\ NothingLost
  <1>1. FilesOK' /\ OthersOK'
    BY Zenon DEF UInv, FilesOK, OthersOK, Files, Outside
  <1>2. NothingLost
    BY Zenon, KeptUnmoved DEF UInv, Files, NothingLost
  <1>3. Quiet' => Quiet
    BY Zenon DEF Quiet, Outside
  <1>4. Quiet => QuietFiles'
    BY Zenon, QuietUnmoved DEF UInv, QuietFiles, Files, Outside
  <1> QED
    BY Zenon, <1>1, <1>2, <1>3, <1>4 DEF UInv

\* It raises, returns or dies.
LEMMA NothingRuns ==
  /\ NotRunning.pc = "idle" /\ CommandOK(NotRunning)
  /\ \A files, shown : PurgeOK(NotRunning, files, shown)
  /\ AddedIsLate(NotRunning) /\ AddedIsLate(NotRunning)'
  /\ QuietCommand(NotRunning) /\ QuietCommand(NotRunning)'
  <1>1. NotRunning = Held("idle", NoPlan, {}, "none", {}, NoArchive, {})
    BY Zenon DEF NotRunning, Command, Held
  <1>2. /\ NotRunning.pc = "idle" /\ NotRunning.plan = NoPlan /\ NotRunning.todo = {}
        /\ NotRunning.archiveTo = "none" /\ NotRunning.purge = {} /\ NotRunning.entries = {}
        /\ IsCommand(NotRunning)
    BY <1>1, CommandParts
  <1>3. NoPlan \in Plans
    BY Zenon DEF NoPlan, Plans
  <1>4. CommandOK(NotRunning)
    BY Zenon, <1>2, <1>3 DEF CommandOK, UninstallPcs
  <1>5. "idle" \notin ChecksGone \cup ServiceGone \cup AfterRecheck \cup RemovalPcs
    BY Zenon DEF ChecksGone, ServiceGone, AfterRecheck, RemovalPcs
  <1>6. "idle" \notin {"archive", "purge", "purging", "generation"}
    BY Zenon
  <1>7. \A files, shown : PurgeOK(NotRunning, files, shown)
    BY Zenon, <1>2, <1>6 DEF PurgeOK
  <1>8. AddedIsLate(NotRunning) /\ AddedIsLate(NotRunning)'
    BY Zenon, <1>2, <1>5, <1>6 DEF AddedIsLate
  <1>9. QuietCommand(NotRunning) /\ QuietCommand(NotRunning)'
    BY Zenon, <1>2, <1>5, <1>6 DEF QuietCommand
  <1> QED
    BY Zenon, <1>2, <1>4, <1>7, <1>8, <1>9

LEMMA AtRest ==
  ASSUME un' = NotRunning
  PROVE  CommandOK(un)' /\ AddedIsLate(un)' /\ PurgeOK(un, stateFile, archive)' /\ QuietCommand(un)'
  <1>1. CommandOK(un)'
    BY Zenon, NothingRuns DEF CommandOK, IsCommand
  <1>2. AddedIsLate(un)'
    BY Zenon, NothingRuns DEF AddedIsLate
  <1>3. PurgeOK(un, stateFile, archive)'
    BY Zenon, NothingRuns DEF PurgeOK
  <1>4. QuietCommand(un)'
    BY Zenon, NothingRuns DEF QuietCommand
  <1> QED
    BY Zenon, <1>1, <1>2, <1>3, <1>4

LEMMA LeaveSteps ==
  ASSUME UInv, Leave, UNCHANGED <<Files, Outside, budget>>
  PROVE  UInv' /\ NothingLost
  <1>1. un' = NotRunning /\ late' = {} /\ un'.pc = "idle"
    BY Zenon, NothingRuns DEF Leave
  <1> QED
    BY Zenon, <1>1, AtRest, CommandSteps

LEMMA Proceeds ==
  ASSUME CommandOK(un), NEW pc \in UninstallPcs, un' = Goto(pc)
  PROVE  /\ un'.pc = pc /\ un'.plan = un.plan /\ un'.todo = un.todo /\ un'.archiveTo = un.archiveTo
         /\ un'.purge = un.purge /\ un'.prepared = un.prepared /\ un'.entries = un.entries
         /\ CommandOK(un)'
  <1>1. un' = Held(pc, un.plan, un.todo, un.archiveTo, un.purge, un.prepared, un.entries)
    BY Zenon, CommandSet DEF Goto, CommandOK
  <1>2. /\ un'.pc = pc /\ un'.plan = un.plan /\ un'.todo = un.todo /\ un'.archiveTo = un.archiveTo
        /\ un'.purge = un.purge /\ un'.prepared = un.prepared /\ un'.entries = un.entries
        /\ IsCommand(un')
    BY <1>1, CommandParts
  <1> QED
    BY Zenon, <1>2 DEF CommandOK, IsCommand

LEMMA PlanTyped == RemovalPlan \in Plans
  BY Zenon DEF RemovalPlan, ShellProfileEdits, Plans, Paths

LEMMA PlanParts ==
  /\ RemovalPlan.remove = {l \in Link : link[l] # Unlinked} \cup {l \in Launcher : launcher[l] # "absent"}
                            \cup {g \in Gen : gen[g].present}
  /\ RemovalPlan.edits = ShellProfileEdits
  BY Zenon DEF RemovalPlan

\* An accepted plan: no installation is under way, no file was added.
LEMMA AcceptedPlan ==
  ASSUME FilesOK, PlanAccepted
  PROVE  /\ \A g \in Gen : "added" \notin gen[g].entries
         /\ \A g \in Gen : gen[g] # Unsealed
  <1>1. SUFFICES ASSUME NEW g \in Gen
                 PROVE  "added" \notin gen[g].entries /\ gen[g] # Unsealed
    BY Zenon, <1>1
  <1>2. GenerationAccepted(g) /\ (gen[g].present \/ gen[g] = NoGeneration)
    BY Zenon DEF PlanAccepted, FilesOK
  <1>3. "added" \notin Packaged /\ Packaged # {}
    BY Zenon DEF Packaged
  <1>4. "added" \notin gen[g].entries
    BY <1>2, <1>3 DEF GenerationAccepted, EmptyDirectory, NoGeneration
  <1>5. gen[g] # Unsealed
    BY <1>2, <1>3 DEF GenerationAccepted, EmptyDirectory, Unsealed
  <1> QED
    BY Zenon, <1>4, <1>5

LEMMA Begins ==
  ASSUME NEW pc, NEW plan, NEW dest, NEW chosen, un' = Command(pc, plan, dest, chosen)
  PROVE  /\ un'.pc = pc /\ un'.plan = plan /\ un'.todo = {} /\ un'.archiveTo = dest
         /\ un'.purge = chosen /\ un'.entries = {} /\ IsCommand(un')
  BY Zenon DEF Command, Held, IsCommand

LEMMA UninstallStartsSteps ==
  ASSUME UInv, NEW chosen \in {{}, Family, {"sqlite"}}, NEW dest \in Destinations \cup {"none"},
         UninstallStarts(chosen, dest)
  PROVE  UInv' /\ NothingLost
  <1> DEFINE first == IF RemovalPlan.remove = {} /\ chosen = {} THEN "profiles planned" ELSE "check service"
  <1>1. un' = Command(first, RemovalPlan, dest, chosen)
    BY Zenon DEF UninstallStarts
  <1>2. first = "profiles planned" \/ first = "check service"
    BY Zenon
  <1> HIDE DEF first
  <1>3. /\ un'.pc = first /\ un'.plan = RemovalPlan /\ un'.todo = {} /\ un'.archiveTo = dest
        /\ un'.purge = chosen /\ un'.entries = {} /\ IsCommand(un')
    BY Zenon, <1>1, Begins
  <1>4. first \in UninstallPcs /\ first \notin ChecksGone \cup ServiceGone \cup AfterRecheck \cup RemovalPcs
    BY Zenon, <1>2 DEF UninstallPcs, ChecksGone, ServiceGone, AfterRecheck, RemovalPcs
  <1>5. first \notin {"archive", "purge", "purging", "generation"}
    BY Zenon, <1>2
  <1>6. chosen \in SUBSET StateFile
    BY Zenon DEF Family, StateFile
  <1>7. CommandOK(un)'
    BY Zenon, <1>3, <1>4, <1>6, PlanTyped DEF CommandOK, IsCommand
  <1>8. AddedIsLate(un)'
    BY Zenon, <1>3, <1>4, <1>5 DEF AddedIsLate
  <1>9. PurgeOK(un, stateFile, archive)'
    BY Zenon, <1>3, <1>5 DEF PurgeOK
  <1>10. QuietCommand(un)'
    BY Zenon, <1>3, <1>4, <1>5 DEF QuietCommand
  <1>11. UNCHANGED <<Files, Outside, late, budget>> /\ PlanAccepted
    BY Zenon DEF UninstallStarts
  <1>12. Quiet => installing = Unlinked
    BY Zenon, <1>11, AcceptedPlan DEF UInv, QuietFiles, InstallsAlone, OthersOK
  <1> QED
    BY Zenon, <1>7, <1>8, <1>9, <1>10, <1>11, <1>12, CommandSteps DEF UInv, OthersOK

LEMMA UpdateServiceAbsentSteps ==
  ASSUME UInv, UpdateServiceAbsent
  PROVE  UInv' /\ NothingLost
  <1>1. /\ un.pc = "check service" /\ checkUnits = {} /\ un' = Goto("stop service") /\ late' = late
        /\ UNCHANGED <<Files, Outside, budget>>
    BY Zenon DEF UpdateServiceAbsent, Running, Proceed
  <1>2. "stop service" \in UninstallPcs /\ "stop service" \notin ServiceGone \cup AfterRecheck \cup RemovalPcs
    BY Zenon DEF UninstallPcs, ChecksGone, ServiceGone, AfterRecheck, RemovalPcs
  <1>3. "stop service" \notin {"archive", "purge", "purging", "generation"} /\ "check service" # "idle"
    BY Zenon
  <1>4. CommandOK(un)' /\ un'.pc = "stop service"
    BY Zenon, <1>1, <1>2, Proceeds DEF UInv
  <1>5. AddedIsLate(un)'
    BY Zenon, <1>2, <1>3, <1>4 DEF AddedIsLate
  <1>6. PurgeOK(un, stateFile, archive)'
    BY Zenon, <1>3, <1>4 DEF PurgeOK
  <1>7. QuietCommand(un)'
    BY Zenon, <1>1, <1>2, <1>3, <1>4 DEF QuietCommand, Files
  <1>8. Quiet => installing = Unlinked
    BY Zenon, <1>1, <1>3, QuietRunsAlone
  <1> QED
    BY Zenon, <1>1, <1>4, <1>5, <1>6, <1>7, <1>8, CommandSteps DEF UInv, OthersOK

LEMMA OthersRest ==
  ASSUME OthersOK, UNCHANGED <<Outside, budget>>, late' \in SUBSET Gen
  PROVE  OthersOK' /\ (Quiet' => Quiet) /\ UNCHANGED installing
  BY Zenon DEF OthersOK, Quiet, Outside

LEMMA UpdateServiceUnlinksSteps ==
  ASSUME UInv, NEW f \in CheckUnit, UpdateServiceUnlinks(f)
  PROVE  UInv' /\ NothingLost
  <1>1. /\ un.pc = "check service" /\ checkUnits # {} /\ checkUnits' = checkUnits \ {f} /\ late' = late
        /\ UNCHANGED <<gen, link, launcher, unit, profile, stateFile, archive>>
        /\ UNCHANGED <<Outside, budget>>
    BY Zenon DEF UpdateServiceUnlinks, Running, Proceed
  <1>2. \/ un' = un
        \/ un' = Goto("stop service") /\ checkUnits' = {}
    BY Zenon DEF UpdateServiceUnlinks, Proceed
  <1>3. /\ "stop service" \in UninstallPcs /\ "check service" # "idle"
        /\ \A pc \in {"stop service", "check service"} :
             /\ pc \notin ServiceGone \cup AfterRecheck \cup RemovalPcs
             /\ pc \notin {"archive", "purge", "purging", "generation"}
             /\ (pc \in ChecksGone => pc = "stop service")
    BY Zenon DEF UninstallPcs, ChecksGone, ServiceGone, AfterRecheck, RemovalPcs
  <1>4. /\ CommandOK(un)' /\ un'.pc \in {"stop service", "check service"}
        /\ un'.pc = "stop service" => checkUnits' = {}
    <2>1. CASE un' = un
      BY Zenon, <1>1, <2>1 DEF UInv, CommandOK, IsCommand
    <2>2. CASE un' = Goto("stop service") /\ checkUnits' = {}
      BY Zenon, <1>3, <2>2, Proceeds DEF UInv
    <2> QED
      BY Zenon, <1>2, <2>1, <2>2
  <1>5. AddedIsLate(un)'
    BY Zenon, <1>3, <1>4 DEF AddedIsLate
  <1>6. PurgeOK(un, stateFile, archive)'
    BY Zenon, <1>3, <1>4 DEF PurgeOK
  <1>7. QuietCommand(un)'
    BY Zenon, <1>3, <1>4 DEF QuietCommand
  <1>8. FilesOK' /\ NothingLost
    BY Zenon, <1>1, KeptUnmoved DEF UInv, FilesOK, NothingLost
  <1>9. OthersOK' /\ (Quiet' => Quiet) /\ UNCHANGED installing
    BY Zenon, <1>1, OthersRest DEF UInv, OthersOK
  <1>10. Quiet => installing = Unlinked
    BY Zenon, <1>1, <1>3, QuietRunsAlone
  <1>11. Quiet => QuietFiles'
    <2>1. ASSUME Quiet PROVE ChecksKnown'
      BY Zenon, <1>1, <2>1 DEF UInv, QuietFiles, ChecksKnown
    <2> QED
      BY Zenon, <1>1, <1>9, <1>10, <2>1, QuietUnmoved DEF UInv, QuietFiles
  <1> QED
    BY Zenon, <1>4, <1>5, <1>6, <1>7, <1>8, <1>9, <1>11 DEF UInv

LEMMA StopRuntimeSteps ==
  ASSUME UInv, StopRuntime
  PROVE  UInv' /\ NothingLost
  <1>1. /\ un.pc = "stop service" /\ unit' = FALSE /\ un' = Goto("recheck") /\ late' = late
        /\ UNCHANGED <<gen, link, launcher, checkUnits, profile, stateFile, archive>>
        /\ UNCHANGED <<Outside, budget>>
    BY Zenon DEF StopRuntime, Running, Proceed
  <1>2. /\ "recheck" \in UninstallPcs /\ "stop service" # "idle" /\ "stop service" \in ChecksGone
        /\ "recheck" \notin AfterRecheck \cup RemovalPcs
        /\ "recheck" \notin {"archive", "purge", "purging", "generation"}
    BY Zenon DEF UninstallPcs, ChecksGone, ServiceGone, AfterRecheck, RemovalPcs
  <1>3. CommandOK(un)' /\ un'.pc = "recheck"
    BY Zenon, <1>1, <1>2, Proceeds DEF UInv
  <1>4. AddedIsLate(un)'
    BY Zenon, <1>2, <1>3 DEF AddedIsLate
  <1>5. PurgeOK(un, stateFile, archive)'
    BY Zenon, <1>2, <1>3 DEF PurgeOK
  <1>6. Quiet => QuietCommand(un)'
    <2>1. Quiet => checkUnits' = {}
      BY Zenon, <1>1, <1>2 DEF UInv, QuietCommand
    <2> QED
      BY Zenon, <1>1, <1>2, <1>3, <2>1 DEF QuietCommand
  <1>7. FilesOK' /\ NothingLost
    BY Zenon, <1>1, KeptUnmoved DEF UInv, FilesOK, NothingLost
  <1>8. OthersOK' /\ (Quiet' => Quiet) /\ UNCHANGED installing
    BY Zenon, <1>1, OthersRest DEF UInv, OthersOK
  <1>9. Quiet => installing = Unlinked
    BY Zenon, <1>1, <1>2, QuietRunsAlone
  <1>10. Quiet => QuietFiles'
    <2>1. UnitKnown'
      BY Zenon, <1>1 DEF UnitKnown
    <2> QED
      BY Zenon, <1>1, <1>8, <1>9, <2>1, QuietUnmoved DEF UInv, QuietFiles
  <1> QED
    BY Zenon, <1>3, <1>4, <1>5, <1>6, <1>7, <1>8, <1>10 DEF UInv

LEMMA StopRuntimeFailsSteps ==
  ASSUME UInv, StopRuntimeFails
  PROVE  UInv' /\ NothingLost
  <1>1. /\ unit' = unit \/ unit' = FALSE
        /\ un' = NotRunning /\ late' = {}
        /\ UNCHANGED <<gen, link, launcher, checkUnits, profile, stateFile, archive>>
        /\ UNCHANGED <<Outside, budget>>
    BY Zenon DEF StopRuntimeFails, Leave
  <1>2. CommandOK(un)' /\ AddedIsLate(un)' /\ PurgeOK(un, stateFile, archive)' /\ QuietCommand(un)'
    BY Zenon, <1>1, AtRest
  <1>3. un'.pc = "idle"
    BY Zenon, <1>1, NothingRuns
  <1>4. FilesOK' /\ NothingLost
    BY Zenon, <1>1, KeptUnmoved DEF UInv, FilesOK, NothingLost
  <1>5. OthersOK' /\ (Quiet' => Quiet) /\ UNCHANGED installing
    BY Zenon, <1>1, OthersRest DEF UInv, OthersOK
  <1>6. Quiet => QuietFiles'
    <2>1. UnitKnown => UnitKnown'
      BY Zenon, <1>1 DEF UnitKnown
    <2> QED
      BY Zenon, <1>1, <1>3, <1>5, <2>1, QuietUnmoved DEF UInv, QuietFiles
  <1> QED
    BY Zenon, <1>2, <1>4, <1>5, <1>6 DEF UInv

LEMMA RecheckSteps ==
  ASSUME UInv, Recheck
  PROVE  UInv' /\ NothingLost
  <1>1. un.pc = "recheck" /\ UNCHANGED <<Files, Outside, budget>>
    BY Zenon DEF Recheck, Running
  <1>2. CASE Leave
    BY Zenon, <1>1, <1>2, LeaveSteps
  <1>3. CASE /\ PlanAccepted /\ RemovalPlan = un.plan /\ late' = {}
             /\ un' = [Goto("archive") EXCEPT !.prepared = PreparedPurge(un.purge)]
    <2>1. /\ "archive" \in UninstallPcs /\ "archive" \notin RemovalPcs /\ "recheck" \in ServiceGone \cap ChecksGone
          /\ "archive" \notin {"purge", "purging", "generation"} /\ "recheck" # "idle"
      BY Zenon DEF UninstallPcs, ChecksGone, ServiceGone, AfterRecheck, RemovalPcs
    <2>2. /\ un'.pc = "archive" /\ un'.plan = un.plan /\ un'.todo = un.todo /\ un'.archiveTo = un.archiveTo
          /\ un'.purge = un.purge /\ un'.prepared = PreparedPurge(un.purge) /\ un'.entries = un.entries
          /\ IsCommand(un')
      <3>1. un' = Held("archive", un.plan, un.todo, un.archiveTo, un.purge, PreparedPurge(un.purge), un.entries)
        BY Zenon, <1>3, GotoSet DEF UInv, CommandOK
      <3> QED
        BY Zenon, <3>1, CommandNext
    <2>3. CommandOK(un)'
      BY Zenon, <2>1, <2>2 DEF UInv, CommandOK, IsCommand
    <2>4. AddedIsLate(un)'
      BY Zenon, <1>1, <1>3, <2>1, <2>2, AcceptedPlan DEF UInv, AddedIsLate, Files
    <2>5. PurgeOK(un, stateFile, archive)'
      <3>1. \A f \in un.purge : un'.prepared[f] = stateFile[f] /\ stateFile[f] \in Nat
        BY Zenon, <2>2 DEF PreparedPurge, UInv, FilesOK, CommandOK
      <3>2. stateFile' = stateFile
        BY Zenon, <1>1 DEF Files
      <3> QED
        BY <2>1, <2>2, <3>1, <3>2 DEF PurgeOK
    <2>6. Quiet => QuietCommand(un)'
      <3>1. Quiet => checkUnits = {} /\ unit = FALSE
        BY Zenon, <1>1, <2>1 DEF UInv, QuietCommand
      <3>2. /\ \A l \in Link : link[l] # Unlinked => l \in un.plan.remove
            /\ \A l \in Launcher : launcher[l] # "absent" => l \in un.plan.remove
        BY Zenon, <1>3, PlanParts
      <3> QED
        BY Zenon, <1>1, <2>1, <2>2, <3>1, <3>2 DEF QuietCommand, Files
    <2>7. Quiet => installing = Unlinked
      BY Zenon, <1>1, <2>1, QuietRunsAlone
    <2> QED
      BY Zenon, <1>1, <1>3, <2>3, <2>4, <2>5, <2>6, <2>7, CommandSteps
  <1> QED
    BY Zenon, <1>2, <1>3 DEF Recheck

\* From one step to the next after the second look, when the files that matter stay.
LEMMA GoesOn ==
  ASSUME UInv, NEW pc \in AfterRecheck \ RemovalPcs, un.pc \in AfterRecheck \ RemovalPcs,
         un'.pc = pc, un'.plan = un.plan, late' = late,
         UNCHANGED <<gen, link, launcher, unit, checkUnits>>
  PROVE  AddedIsLate(un)' /\ (Quiet => QuietCommand(un)')
  <1>1. pc # "generation" /\ pc \in ChecksGone /\ pc \in ServiceGone
    BY Zenon DEF RemovalPcs, ChecksGone, ServiceGone
  <1>2. un.pc \in ChecksGone /\ un.pc \in ServiceGone
    BY Zenon DEF ChecksGone, ServiceGone
  <1>3. AddedIsLate(un)'
    BY Zenon, <1>1 DEF UInv, AddedIsLate
  <1>4. Quiet => QuietCommand(un)'
    BY Zenon, <1>1, <1>2 DEF UInv, QuietCommand
  <1> QED
    BY Zenon, <1>3, <1>4

LEMMA CreateStateArchiveSteps ==
  ASSUME UInv, CreateStateArchive
  PROVE  UInv' /\ NothingLost
  <1>1. /\ un.pc = "archive" /\ UNCHANGED <<gen, link, launcher, unit, checkUnits, profile, stateFile>>
        /\ UNCHANGED <<Outside, budget>>
    BY Zenon DEF CreateStateArchive, Running
  <1>2. CASE Leave /\ UNCHANGED archive
    BY Zenon, <1>1, <1>2, LeaveSteps DEF Files
  <1>3. CASE /\ un' = Goto("purge") /\ late' = late
             /\ \/ un.archiveTo = "none" /\ UNCHANGED archive
                \/ /\ un.archiveTo # "none" /\ archive[un.archiveTo] = NoArchive
                   /\ archive' = [archive EXCEPT ![un.archiveTo] = stateFile]
    <2>1. /\ "purge" \in UninstallPcs /\ "archive" # "idle" /\ "purge" \notin {"archive", "purging"}
          /\ {"purge", "archive"} \subseteq AfterRecheck \ RemovalPcs
      BY Zenon DEF UninstallPcs, ChecksGone, ServiceGone, AfterRecheck, RemovalPcs
    <2>2. /\ un'.pc = "purge" /\ un'.plan = un.plan /\ un'.archiveTo = un.archiveTo
          /\ un'.purge = un.purge /\ un'.prepared = un.prepared /\ CommandOK(un)'
      BY Zenon, <1>3, <2>1, Proceeds DEF UInv
    <2>3. archive \in [Destinations -> Archives] /\ stateFile \in [StateFile -> Nat]
      BY Zenon DEF UInv, FilesOK
    <2>4. archive' \in [Destinations -> Archives]
      BY Zenon, <1>3, <2>3 DEF Archives
    <2>5. FilesOK' /\ NothingLost
      BY Zenon, <1>1, <2>4, KeptUnmoved DEF UInv, FilesOK, NothingLost
    <2>6. AddedIsLate(un)' /\ (Quiet => QuietCommand(un)')
      BY Zenon, <1>1, <1>3, <2>1, <2>2, GoesOn
    <2>7. un.archiveTo # "none" => archive'[un.archiveTo] = stateFile /\ stateFile # NoArchive
      <3>1. un.archiveTo # "none" => un.archiveTo \in Destinations
        BY Zenon DEF UInv, CommandOK
      <3>2. stateFile # NoArchive
        <4>1. DOMAIN stateFile = StateFile /\ "sqlite" \in StateFile
          BY Zenon, <2>3 DEF StateFile
        <4>2. DOMAIN NoArchive = {}
          BY DEF NoArchive
        <4> QED
          BY Zenon, <4>1, <4>2
      <3> QED
        BY Zenon, <1>3, <2>3, <3>1, <3>2
    <2>8. PurgeOK(un, stateFile, archive)'
      <3>1. un.purge \in SUBSET StateFile /\ \A f \in un.purge : un.prepared[f] \in Nat /\ un.prepared[f] <= stateFile[f]
        BY Zenon, <1>1 DEF UInv, PurgeOK, CommandOK
      <3>2. \A f \in StateFile : stateFile[f] <= stateFile[f]
        BY <2>3
      <3> QED
        BY Zenon, <1>1, <2>1, <2>2, <2>7, <3>1, <3>2 DEF PurgeOK
    <2>9. OthersOK' /\ (Quiet' => Quiet) /\ UNCHANGED installing
      BY Zenon, <1>1, <1>3, OthersRest DEF UInv, OthersOK
    <2>10. Quiet => installing = Unlinked
      BY Zenon, <1>1, <2>1, QuietRunsAlone
    <2>11. Quiet => QuietFiles'
      BY Zenon, <1>1, <2>9, <2>10, QuietUnmoved DEF UInv, QuietFiles
    <2> QED
      BY Zenon, <2>2, <2>5, <2>6, <2>8, <2>9, <2>11 DEF UInv
  <1> QED
    BY Zenon, <1>2, <1>3 DEF CreateStateArchive, Proceed

LEMMA PurgeChecksSteps ==
  ASSUME UInv, PurgeChecks
  PROVE  UInv' /\ NothingLost
  <1>1. un.pc = "purge" /\ UNCHANGED <<Files, Outside, budget>>
    BY Zenon DEF PurgeChecks, Running
  <1>2. CASE Leave
    BY Zenon, <1>1, <1>2, LeaveSteps
  <1>3. CASE /\ un' = Goto("purging") /\ late' = late
             /\ un.purge = {} \/ PreparedPurge(un.purge) = un.prepared
    <2>1. /\ "purging" \in UninstallPcs /\ "purge" # "idle" /\ "purging" \notin {"archive", "purge"}
          /\ {"purge", "purging"} \subseteq AfterRecheck \ RemovalPcs
      BY Zenon DEF UninstallPcs, ChecksGone, ServiceGone, AfterRecheck, RemovalPcs
    <2>2. /\ un'.pc = "purging" /\ un'.plan = un.plan /\ un'.archiveTo = un.archiveTo
          /\ un'.purge = un.purge /\ un'.prepared = un.prepared /\ CommandOK(un)'
      BY Zenon, <1>3, <2>1, Proceeds DEF UInv
    <2>3. AddedIsLate(un)' /\ (Quiet => QuietCommand(un)')
      BY Zenon, <1>1, <1>3, <2>1, <2>2, GoesOn DEF Files
    <2>4. PurgeOK(un, stateFile, archive)'
      <3>1. \A f \in un.purge : un.prepared[f] = stateFile[f]
        <4>1. CASE un.purge = {}
          BY Zenon, <4>1
        <4>2. CASE PreparedPurge(un.purge) = un.prepared
          BY Zenon, <4>2 DEF PreparedPurge
        <4> QED
          BY Zenon, <1>3, <4>1, <4>2
      <3>2. \A f \in un.purge : un.prepared[f] \in Nat
        BY Zenon, <1>1 DEF UInv, PurgeOK
      <3>3. un.archiveTo # "none" =>
              /\ archive[un.archiveTo] # NoArchive
              /\ \A f \in un.purge : un.prepared[f] <= archive[un.archiveTo][f] /\ archive[un.archiveTo][f] <= stateFile[f]
        BY Zenon, <1>1 DEF UInv, PurgeOK
      <3>4. un.archiveTo # "none" => \A f \in un.purge : archive[un.archiveTo][f] \in Nat
        <4>1. un.archiveTo # "none" => archive[un.archiveTo] \in [StateFile -> Nat]
          BY Zenon, <3>3 DEF UInv, FilesOK, CommandOK, Archives
        <4> QED
          BY Zenon, <4>1 DEF UInv, CommandOK
      <3>5. un.archiveTo # "none" => \A f \in un.purge : archive[un.archiveTo][f] = un.prepared[f]
        BY <3>1, <3>2, <3>3, <3>4
      <3>6. stateFile' = stateFile /\ archive' = archive
        BY Zenon, <1>1 DEF Files
      <3> QED
        BY Zenon, <2>1, <2>2, <3>2, <3>3, <3>5, <3>6 DEF PurgeOK
    <2>5. Quiet => installing = Unlinked
      BY Zenon, <1>1, <2>1, QuietRunsAlone
    <2> QED
      BY ZenonT(30), <1>1, <1>3, <2>2, <2>3, <2>4, <2>5, CommandSteps DEF UInv, OthersOK
  <1> QED
    BY Zenon, <1>2, <1>3 DEF PurgeChecks, Proceed

LEMMA PurgeFileSteps ==
  ASSUME UInv, NEW f \in StateFile, PurgeFile(f)
  PROVE  UInv' /\ NothingLost
  <1>1. /\ un.pc = "purging" /\ f \in un.purge
        /\ UNCHANGED <<gen, link, launcher, unit, checkUnits, profile, archive>>
        /\ UNCHANGED <<Outside, budget>>
    BY Zenon DEF PurgeFile, Running
  <1>2. CASE Leave /\ UNCHANGED stateFile
    BY Zenon, <1>1, <1>2, LeaveSteps DEF Files
  <1>3. CASE /\ un.prepared[f] = 0 \/ stateFile[f] = un.prepared[f]
             /\ stateFile' = IF un.prepared[f] = 0 THEN stateFile ELSE [stateFile EXCEPT ![f] = 0]
             /\ un' = [un EXCEPT !.purge = @ \ {f}] /\ late' = late
    <2>1. /\ "purging" \in UninstallPcs /\ "purging" # "idle" /\ "purging" \notin {"archive", "purge"}
          /\ "purging" \in AfterRecheck \ RemovalPcs
      BY Zenon DEF UninstallPcs, ChecksGone, ServiceGone, AfterRecheck, RemovalPcs
    <2>2. /\ un'.pc = "purging" /\ un'.plan = un.plan /\ un'.todo = un.todo /\ un'.archiveTo = un.archiveTo
          /\ un'.purge = un.purge \ {f} /\ un'.prepared = un.prepared /\ un'.entries = un.entries
          /\ IsCommand(un')
      <3>1. un' = Held(un.pc, un.plan, un.todo, un.archiveTo, un.purge \ {f}, un.prepared, un.entries)
        BY Zenon, <1>3, CommandSet DEF UInv, CommandOK
      <3> QED
        BY Zenon, <1>1, <3>1 DEF Held, IsCommand
    <2>3. CommandOK(un)'
      BY Zenon, <2>1, <2>2 DEF UInv, CommandOK, IsCommand
    <2>4. AddedIsLate(un)' /\ (Quiet => QuietCommand(un)')
      BY Zenon, <1>1, <1>3, <2>1, <2>2, GoesOn
    <2>5. stateFile' \in [StateFile -> Nat]
      BY Zenon, <1>3 DEF UInv, FilesOK
    <2>6. FilesOK'
      BY Zenon, <1>1, <2>5 DEF UInv, FilesOK
    <2>7. PurgedKept
      <3>1. SUFFICES ASSUME NEW g \in StateFile, stateFile[g] # 0, stateFile'[g] = 0, un.archiveTo # "none"
                     PROVE  archive[un.archiveTo] # NoArchive /\ archive[un.archiveTo][g] = stateFile[g]
        BY Zenon DEF PurgedKept
      <3>2. g = f /\ stateFile[f] = un.prepared[f]
        BY Zenon, <1>3, <3>1 DEF UInv, FilesOK
      <3> QED
        BY Zenon, <1>1, <2>1, <3>1, <3>2 DEF UInv, PurgeOK
    <2>8. NothingLost
      BY Zenon, <1>1, <2>7, KeptUnmoved DEF UInv, NothingLost
    <2>9. PurgeOK(un, stateFile, archive)'
      BY Zenon, <1>1, <2>1, <2>2 DEF UInv, PurgeOK
    <2>10. OthersOK' /\ (Quiet' => Quiet) /\ UNCHANGED installing
      BY Zenon, <1>1, <1>3, OthersRest DEF UInv, OthersOK
    <2>11. Quiet => installing = Unlinked
      BY Zenon, <1>1, <2>1, QuietRunsAlone
    <2>12. Quiet => QuietFiles'
      BY Zenon, <1>1, <2>10, <2>11, QuietUnmoved DEF UInv, QuietFiles
    <2> QED
      BY Zenon, <2>3, <2>4, <2>6, <2>8, <2>9, <2>10, <2>12 DEF UInv
  <1> QED
    BY Zenon, <1>2, <1>3 DEF PurgeFile

LEMMA PurgedSteps ==
  ASSUME UInv, Purged
  PROVE  UInv' /\ NothingLost
  <1>1. un.pc = "purging" /\ un' = Goto("profiles") /\ late' = late /\ UNCHANGED <<Files, Outside, budget>>
    BY Zenon DEF Purged, Running, Proceed
  <1>2. /\ "profiles" \in UninstallPcs /\ "purging" # "idle" /\ "profiles" \notin {"archive", "purge", "purging"}
        /\ {"profiles", "purging"} \subseteq AfterRecheck \ RemovalPcs
    BY Zenon DEF UninstallPcs, ChecksGone, ServiceGone, AfterRecheck, RemovalPcs
  <1>3. un'.pc = "profiles" /\ un'.plan = un.plan /\ CommandOK(un)'
    BY Zenon, <1>1, <1>2, Proceeds DEF UInv
  <1>4. AddedIsLate(un)' /\ (Quiet => QuietCommand(un)')
    BY Zenon, <1>1, <1>2, <1>3, GoesOn DEF Files
  <1>5. PurgeOK(un, stateFile, archive)'
    BY Zenon, <1>2, <1>3 DEF PurgeOK
  <1>6. Quiet => installing = Unlinked
    BY Zenon, <1>1, <1>2, QuietRunsAlone
  <1> QED
    BY Zenon, <1>1, <1>3, <1>4, <1>5, <1>6, CommandSteps DEF UInv, OthersOK

LEMMA PrepareProfilesSteps ==
  ASSUME UInv, PrepareProfiles
  PROVE  UInv' /\ NothingLost
  <1>1. (un.pc = "profiles" \/ un.pc = "profiles planned") /\ UNCHANGED <<Files, Outside, budget>>
    BY Zenon DEF PrepareProfiles
  <1>2. CASE Leave
    BY Zenon, <1>1, <1>2, LeaveSteps
  <1>3. CASE ~Leave
    <2> DEFINE next == IF un.pc = "profiles" THEN "edit" ELSE "edit only"
               texts == [p \in un.plan.edits |-> profile[p].text]
    <2>1. un' = [[Goto(next) EXCEPT !.todo = un.plan.edits] EXCEPT !.prepared = texts] /\ late' = late
      BY Zenon, <1>3 DEF PrepareProfiles
    <2>2. \/ un.pc = "profiles" /\ next = "edit"
          \/ un.pc = "profiles planned" /\ next = "edit only"
      BY Zenon, <1>1
    <2> HIDE DEF next, texts
    <2>3. un' = Held(next, un.plan, un.plan.edits, un.archiveTo, un.purge, texts, un.entries)
      BY Zenon, <2>1, TodoSet DEF UInv, CommandOK
    <2>4. /\ un'.pc = next /\ un'.plan = un.plan /\ un'.todo = un.plan.edits /\ un'.archiveTo = un.archiveTo
          /\ un'.purge = un.purge /\ un'.entries = un.entries /\ IsCommand(un')
      BY Zenon, <2>3 DEF Held, IsCommand
    <2>5. /\ next \in UninstallPcs /\ un.pc # "idle" /\ next \notin {"archive", "purge", "purging", "generation"}
          /\ next = "edit" => un.pc \in AfterRecheck \ RemovalPcs /\ next \in AfterRecheck \ RemovalPcs
          /\ next # "edit" => next \notin ChecksGone \cup ServiceGone \cup AfterRecheck \cup RemovalPcs
      BY Zenon, <2>2 DEF UninstallPcs, ChecksGone, ServiceGone, AfterRecheck, RemovalPcs
    <2>6. CommandOK(un)'
      BY Zenon, <2>4, <2>5 DEF UInv, CommandOK, IsCommand
    <2>7. AddedIsLate(un)' /\ (Quiet => QuietCommand(un)')
      <3>1. CASE next = "edit"
        BY Zenon, <1>1, <2>1, <2>4, <2>5, <3>1, GoesOn DEF Files
      <3>2. CASE next # "edit"
        BY Zenon, <2>4, <2>5, <3>2 DEF AddedIsLate, QuietCommand
      <3> QED
        BY Zenon, <3>1, <3>2
    <2>8. PurgeOK(un, stateFile, archive)'
      BY Zenon, <2>4, <2>5 DEF PurgeOK
    <2>9. Quiet => installing = Unlinked
      BY Zenon, <2>5, QuietRunsAlone
    <2> QED
      BY Zenon, <1>1, <2>1, <2>6, <2>7, <2>8, <2>9, CommandSteps DEF UInv, OthersOK
  <1> QED
    BY Zenon, <1>2, <1>3

LEMMA EditProfileSteps ==
  ASSUME UInv, NEW p \in Profile, EditProfile(p)
  PROVE  UInv' /\ NothingLost
  <1>1. /\ un.pc = "edit" \/ un.pc = "edit only"
        /\ UNCHANGED <<gen, link, launcher, unit, checkUnits, stateFile, archive>>
        /\ UNCHANGED <<Outside, budget>>
    BY Zenon DEF EditProfile, Editing
  <1>2. CASE Leave /\ UNCHANGED profile
    BY Zenon, <1>1, <1>2, LeaveSteps DEF Files
  <1>3. CASE /\ profile[p].text = un.prepared[p]
             /\ profile' = [profile EXCEPT ![p] = [block |-> "none", text |-> un.prepared[p]]]
             /\ un' = [un EXCEPT !.todo = @ \ {p}] /\ late' = late
    <2>1. /\ un.pc # "idle" /\ un.pc \notin {"archive", "purge", "purging", "generation"}
          /\ un.pc = "edit" => un.pc \in AfterRecheck \ RemovalPcs
          /\ un.pc # "edit" => un.pc \notin ChecksGone \cup ServiceGone \cup AfterRecheck \cup RemovalPcs
      BY Zenon, <1>1 DEF ChecksGone, ServiceGone, AfterRecheck, RemovalPcs
    <2>2. /\ un'.pc = un.pc /\ un'.plan = un.plan /\ un'.todo = un.todo \ {p} /\ un'.archiveTo = un.archiveTo
          /\ un'.purge = un.purge /\ un'.prepared = un.prepared /\ un'.entries = un.entries
          /\ IsCommand(un')
      <3>1. un' = Held(un.pc, un.plan, un.todo \ {p}, un.archiveTo, un.purge, un.prepared, un.entries)
        BY Zenon, <1>3, CommandSet DEF UInv, CommandOK
      <3> QED
        BY Zenon, <3>1 DEF Held, IsCommand
    <2>3. CommandOK(un)'
      BY Zenon, <2>2 DEF UInv, CommandOK, IsCommand
    <2>4. AddedIsLate(un)' /\ (Quiet => QuietCommand(un)')
      <3>1. CASE un.pc = "edit"
        BY Zenon, <1>1, <1>3, <2>1, <2>2, <3>1, GoesOn
      <3>2. CASE un.pc # "edit"
        BY Zenon, <2>1, <2>2, <3>2 DEF AddedIsLate, QuietCommand
      <3> QED
        BY Zenon, <3>1, <3>2
    <2>5. PurgeOK(un, stateFile, archive)'
      BY Zenon, <2>1, <2>2 DEF PurgeOK
    <2>6. profile \in [Profile -> ProfileStates]
      BY Zenon DEF UInv, FilesOK
    <2>7. /\ profile' \in [Profile -> ProfileStates] /\ profile'[p].block = "none" /\ profile'[p].text = profile[p].text
          /\ \A q \in Profile \ {p} : profile'[q] = profile[q]
      BY Zenon, <1>3, <2>6 DEF ProfileStates
    <2>8. \A q \in Profile : profile[q].text \in Nat
      BY Zenon, <2>6 DEF ProfileStates
    <2>9. TextKept
      BY <2>7, <2>8 DEF TextKept
    <2>10. FilesOK' /\ NothingLost
      BY Zenon, <1>1, <2>7, <2>9, KeptUnmoved DEF UInv, FilesOK, NothingLost
    <2>11. OthersOK' /\ (Quiet' => Quiet) /\ UNCHANGED installing
      BY Zenon, <1>1, <1>3, OthersRest DEF UInv, OthersOK
    <2>12. Quiet => installing = Unlinked
      BY Zenon, <2>1, QuietRunsAlone
    <2>13. Quiet => QuietFiles'
      <3>1. ProfilesAccepted => ProfilesAccepted'
        BY Zenon, <2>7 DEF ProfilesAccepted
      <3> QED
        BY Zenon, <1>1, <2>11, <2>12, <3>1, QuietUnmoved DEF UInv, QuietFiles
    <2> QED
      BY Zenon, <2>3, <2>4, <2>5, <2>10, <2>11, <2>13 DEF UInv
  <1> QED
    BY Zenon, <1>2, <1>3 DEF EditProfile, Unchanged, Done

LEMMA ProfilesEditedSteps ==
  ASSUME UInv, ProfilesEdited
  PROVE  UInv' /\ NothingLost
  <1>1. UNCHANGED <<Files, Outside, budget>>
    BY Zenon DEF ProfilesEdited
  <1>2. CASE Leave
    BY Zenon, <1>1, <1>2, LeaveSteps
  <1>3. CASE /\ un.pc = "edit" /\ late' = late
             /\ un' = [[Goto("remove") EXCEPT !.todo = un.plan.remove] EXCEPT !.prepared = NoArchive]
    <2>1. /\ "remove" \in UninstallPcs /\ "edit" # "idle"
          /\ "remove" \notin {"archive", "purge", "purging", "generation"}
          /\ "edit" \in AfterRecheck \ RemovalPcs /\ "remove" \in RemovalPcs /\ "edit" \in ServiceGone \cap ChecksGone
          /\ "remove" \in AfterRecheck
      BY Zenon DEF UninstallPcs, ChecksGone, ServiceGone, AfterRecheck, RemovalPcs
    <2>2. un' = Held("remove", un.plan, un.plan.remove, un.archiveTo, un.purge, NoArchive, un.entries)
      BY Zenon, <1>3, TodoSet DEF UInv, CommandOK
    <2>3. /\ un'.pc = "remove" /\ un'.plan = un.plan /\ un'.todo = un.plan.remove /\ un'.archiveTo = un.archiveTo
          /\ un'.purge = un.purge /\ un'.entries = un.entries /\ IsCommand(un')
      BY Zenon, <2>2 DEF Held, IsCommand
    <2>4. CommandOK(un)'
      BY Zenon, <2>1, <2>3 DEF UInv, CommandOK, IsCommand
    <2>5. AddedIsLate(un)'
      BY Zenon, <1>1, <1>3, <2>1, <2>3 DEF UInv, AddedIsLate, Files
    <2>6. PurgeOK(un, stateFile, archive)'
      BY Zenon, <2>1, <2>3 DEF PurgeOK
    <2>7. Quiet => QuietCommand(un)'
      BY Zenon, <1>1, <1>3, <2>1, <2>3 DEF UInv, QuietCommand, Files
    <2>8. Quiet => installing = Unlinked
      BY Zenon, <1>3, <2>1, QuietRunsAlone
    <2> QED
      BY Zenon, <1>1, <1>3, <2>4, <2>5, <2>6, <2>7, <2>8, CommandSteps DEF UInv, OthersOK
  <1> QED
    BY Zenon, <1>2, <1>3 DEF ProfilesEdited

LEMMA WorkedOff ==
  ASSUME UInv, un.pc = "remove", NEW path, Done(path)
  PROVE  /\ un'.pc = "remove" /\ un'.todo = un.todo \ {path} /\ un'.entries = un.entries /\ late' = late
         /\ CommandOK(un)' /\ PurgeOK(un, stateFile, archive)'
         /\ Quiet => installing = Unlinked /\ checkUnits = {} /\ unit = FALSE
  <1>1. /\ un'.pc = un.pc /\ un'.plan = un.plan /\ un'.todo = un.todo \ {path} /\ un'.archiveTo = un.archiveTo
        /\ un'.purge = un.purge /\ un'.prepared = un.prepared /\ un'.entries = un.entries
        /\ IsCommand(un')
    <2>1. un' = Held(un.pc, un.plan, un.todo \ {path}, un.archiveTo, un.purge, un.prepared, un.entries)
      BY Zenon, CommandSet DEF UInv, CommandOK, Done
    <2> QED
      BY Zenon, <2>1 DEF Held, IsCommand
  <1>2. CommandOK(un)'
    BY Zenon, <1>1 DEF UInv, CommandOK, IsCommand
  <1>3. "remove" \notin {"idle", "archive", "purge", "purging", "generation"}
    BY Zenon
  <1>4. PurgeOK(un, stateFile, archive)'
    BY Zenon, <1>1, <1>3 DEF PurgeOK
  <1>5. "remove" \in ChecksGone /\ "remove" \in ServiceGone
    BY Zenon DEF ChecksGone, ServiceGone, AfterRecheck, RemovalPcs
  <1>6. Quiet => checkUnits = {} /\ unit = FALSE
    BY Zenon, <1>5 DEF UInv, QuietCommand
  <1> QED
    BY Zenon, <1>1, <1>2, <1>3, <1>4, <1>6, QuietRunsAlone DEF Done

LEMMA RemoveLinkSteps ==
  ASSUME UInv, NEW l \in Link, RemoveLink(l)
  PROVE  UInv' /\ NothingLost
  <1>1. /\ un.pc = "remove" /\ link' = [link EXCEPT ![l] = Unlinked] /\ Done(l)
        /\ UNCHANGED <<gen, launcher, unit, checkUnits, profile, stateFile, archive>>
        /\ UNCHANGED <<Outside, budget>>
    BY Zenon DEF RemoveLink, Removing, Running
  <1>2. /\ un'.pc = "remove" /\ un'.todo = un.todo \ {l} /\ late' = late
        /\ CommandOK(un)' /\ PurgeOK(un, stateFile, archive)'
        /\ Quiet => installing = Unlinked /\ checkUnits = {} /\ unit = FALSE
    BY Zenon, <1>1, WorkedOff
  <1>3. /\ "remove" \in RemovalPcs /\ "remove" \in AfterRecheck /\ "remove" # "generation"
        /\ l \notin Launcher
    BY Zenon DEF AfterRecheck, RemovalPcs, Link, Launcher
  <1>4. link \in [Link -> Gen \cup {Unlinked}]
    BY Zenon DEF UInv, FilesOK
  <1>5. link' \in [Link -> Gen \cup {Unlinked}] /\ link'[l] = Unlinked /\ \A m \in Link \ {l} : link'[m] = link[m]
    BY Zenon, <1>1, <1>4
  <1>6. FilesOK' /\ NothingLost
    BY Zenon, <1>1, <1>5, KeptUnmoved DEF UInv, FilesOK, NothingLost
  <1>7. OthersOK' /\ (Quiet' => Quiet) /\ UNCHANGED installing
    BY Zenon, <1>1, <1>2, OthersRest DEF UInv, OthersOK
  <1>8. AddedIsLate(un)'
    BY Zenon, <1>1, <1>2, <1>3 DEF UInv, AddedIsLate
  <1>9. Quiet => QuietFiles'
    <2>1. LinksResolve => LinksResolve'
      BY Zenon, <1>1, <1>5 DEF LinksResolve
    <2> QED
      BY Zenon, <1>1, <1>2, <1>7, <2>1, QuietUnmoved DEF UInv, QuietFiles
  <1>10. Quiet => QuietCommand(un)'
    <2>1. Quiet => /\ \A m \in Link : link[m] # Unlinked => m \in un.todo
                   /\ \A m \in Launcher : launcher[m] # "absent" => m \in un.todo
      BY Zenon, <1>1, <1>3 DEF UInv, QuietCommand
    <2>2. Quiet => /\ \A m \in Link : link'[m] # Unlinked => m \in un'.todo
                   /\ \A m \in Launcher : launcher'[m] # "absent" => m \in un'.todo
      BY Zenon, <1>1, <1>2, <1>3, <1>5, <2>1
    <2> QED
      BY Zenon, <1>1, <1>2, <1>3, <2>2 DEF QuietCommand
  <1> QED
    BY Zenon, <1>2, <1>6, <1>7, <1>8, <1>9, <1>10 DEF UInv

LEMMA RemoveLauncherSteps ==
  ASSUME UInv, NEW l \in Launcher, RemoveLauncher(l)
  PROVE  UInv' /\ NothingLost
  <1>1. /\ un.pc = "remove" /\ launcher' = [launcher EXCEPT ![l] = "absent"] /\ Done(l)
        /\ UNCHANGED <<gen, link, unit, checkUnits, profile, stateFile, archive>>
        /\ UNCHANGED <<Outside, budget>>
    BY Zenon DEF RemoveLauncher, Removing, Running
  <1>2. /\ un'.pc = "remove" /\ un'.todo = un.todo \ {l} /\ late' = late
        /\ CommandOK(un)' /\ PurgeOK(un, stateFile, archive)'
        /\ Quiet => installing = Unlinked /\ checkUnits = {} /\ unit = FALSE
    BY Zenon, <1>1, WorkedOff
  <1>3. /\ "remove" \in RemovalPcs /\ "remove" \in AfterRecheck /\ "remove" # "generation"
        /\ l \notin Link
    BY Zenon DEF AfterRecheck, RemovalPcs, Link, Launcher
  <1>4. launcher \in [Launcher -> {"absent", "managed", "edited"}]
    BY Zenon DEF UInv, FilesOK
  <1>5. /\ launcher' \in [Launcher -> {"absent", "managed", "edited"}] /\ launcher'[l] = "absent"
        /\ \A m \in Launcher \ {l} : launcher'[m] = launcher[m]
    BY Zenon, <1>1, <1>4
  <1>6. FilesOK' /\ NothingLost
    BY Zenon, <1>1, <1>5, KeptUnmoved DEF UInv, FilesOK, NothingLost
  <1>7. OthersOK' /\ (Quiet' => Quiet) /\ UNCHANGED installing
    BY Zenon, <1>1, <1>2, OthersRest DEF UInv, OthersOK
  <1>8. AddedIsLate(un)'
    BY Zenon, <1>1, <1>2, <1>3 DEF UInv, AddedIsLate
  <1>9. Quiet => QuietFiles'
    <2>1. Quiet /\ LaunchersKnown => LaunchersKnown'
      <3>1. "absent" # "edited"
        BY Zenon
      <3> QED
        BY Zenon, <1>1, <1>5, <1>7, <3>1 DEF LaunchersKnown, LaunchersAccepted, HasReceipt
    <2>2. Quiet => ChecksKnown' /\ InstallsAlone'
      BY Zenon, <1>1, <1>2, <1>7 DEF ChecksKnown, InstallsAlone
    <2> QED
      BY Zenon, <1>1, <1>2, <1>7, <2>1, <2>2, QuietUnmoved DEF UInv, QuietFiles
  <1>10. Quiet => QuietCommand(un)'
    <2>1. Quiet => /\ \A m \in Link : link[m] # Unlinked => m \in un.todo
                   /\ \A m \in Launcher : launcher[m] # "absent" => m \in un.todo
      BY Zenon, <1>1, <1>3 DEF UInv, QuietCommand
    <2>2. Quiet => /\ \A m \in Link : link'[m] # Unlinked => m \in un'.todo
                   /\ \A m \in Launcher : launcher'[m] # "absent" => m \in un'.todo
      BY Zenon, <1>1, <1>2, <1>3, <1>5, <2>1
    <2> QED
      BY Zenon, <1>1, <1>2, <1>3, <2>2 DEF QuietCommand
  <1> QED
    BY Zenon, <1>2, <1>6, <1>7, <1>8, <1>9, <1>10 DEF UInv

----------------------------------------------------------------------------
(* Removing a generation.                                                    *)

Acceptable(state) ==
  \/ ~state.present
  \/ state.present /\ state.receipt = "none" /\ state.entries = {}
  \/ state.receipt = "install" /\ state.entries = Packaged
  \/ state.receipt = "removal" /\ state.entries \subseteq Packaged

\* With a generation at the head of the list, nothing points at one any more.
LEMMA NothingPointsAtIt ==
  ASSUME UInv, Quiet, un.pc \in RemovalPcs, NEW g \in Gen, First(RemovalOrder, un.todo, g)
  PROVE  /\ \A l \in Link : link[l] = Unlinked
         /\ \A l \in Launcher : launcher[l] = "absent"
         /\ unit = FALSE /\ checkUnits = {} /\ installing = Unlinked
         /\ Acceptable(gen[g])
         /\ un.pc = "generation" => gen[g].receipt # "install" /\ gen[g].entries = un.entries
  <1>1. un.pc \in ChecksGone /\ un.pc \in ServiceGone /\ un.pc # "idle"
    BY Zenon DEF ChecksGone, ServiceGone, AfterRecheck, RemovalPcs
  <1>2. \A l \in Link \cup Launcher : l \notin un.todo
    BY Zenon, GenerationsLast
  <1>3. QuietCommand(un) /\ QuietFiles
    BY Zenon DEF UInv
  <1>4. /\ \A l \in Link : link[l] # Unlinked => l \in un.todo
        /\ \A l \in Launcher : launcher[l] # "absent" => l \in un.todo
        /\ checkUnits = {} /\ unit = FALSE
        /\ un.pc = "generation" => gen[g].receipt # "install" /\ gen[g].entries = un.entries
    BY Zenon, <1>1, <1>3 DEF QuietCommand
  <1>5. installing = Unlinked /\ g # Unlinked
    BY Zenon, <1>1, QuietRunsAlone, UninstallAssumption
  <1>6. Acceptable(gen[g])
    BY Zenon, <1>3, <1>5 DEF QuietFiles, AllSealed, SealedOrUnderway, GenerationAccepted, EmptyDirectory,
                             Acceptable
  <1> QED
    BY Zenon, <1>2, <1>4, <1>5, <1>6

LEMMA GenerationSteps ==
  ASSUME UInv, un.pc \in RemovalPcs, un'.pc \in RemovalPcs,
         NEW g \in Gen, First(RemovalOrder, un.todo, g),
         NEW x \in GenStates, x.present \/ x = NoGeneration, gen' = [gen EXCEPT ![g] = x],
         UNCHANGED <<link, launcher, unit, checkUnits, profile, stateFile, archive>>,
         UNCHANGED <<Outside, budget>>, late' = late, CommandOK(un)',
         "added" \in x.entries => "added" \in gen[g].entries,
         un'.pc = "generation" => un'.todo = un.todo /\ ("added" \in un'.entries => g \in late),
         Quiet => Acceptable(x),
         Quiet /\ un'.pc = "generation" => x.receipt # "install" /\ x.entries = un'.entries
  PROVE  UInv' /\ NothingLost
  <1>1. /\ un.pc \in AfterRecheck /\ un'.pc \in ChecksGone \cap ServiceGone \cap AfterRecheck
        /\ un'.pc \notin {"idle", "archive", "purge", "purging"}
    BY Zenon DEF ChecksGone, ServiceGone, AfterRecheck, RemovalPcs
  <1>2. gen \in [Gen -> GenStates] /\ \A h \in Gen : gen[h].present \/ gen[h] = NoGeneration
    BY Zenon DEF UInv, FilesOK
  <1>3. gen' \in [Gen -> GenStates] /\ gen'[g] = x /\ \A h \in Gen \ {g} : gen'[h] = gen[h]
    BY Zenon, <1>2
  <1>4. \A h \in Gen : gen'[h].present \/ gen'[h] = NoGeneration
    BY Zenon, <1>2, <1>3
  <1>5. \A h \in Gen : "added" \in gen[h].entries => h \in late
    BY Zenon, <1>1 DEF UInv, AddedIsLate
  <1>6. AddedKept
    BY Zenon, <1>5 DEF AddedKept
  <1>7. FilesOK' /\ NothingLost
    BY Zenon, <1>3, <1>4, <1>6, KeptUnmoved DEF UInv, FilesOK, NothingLost
  <1>8. OthersOK' /\ (Quiet' => Quiet) /\ UNCHANGED installing
    BY Zenon, OthersRest DEF UInv, OthersOK
  <1>9. \A h \in Gen : First(RemovalOrder, un.todo, h) => h = g
    BY Zenon, OnlyOneFirst, RemovalOrderIs
  <1>10. AddedIsLate(un)'
    <2>1. \A h \in Gen : "added" \in gen'[h].entries => h \in late
      BY Zenon, <1>3, <1>5
    <2>2. un'.pc = "generation" /\ "added" \in un'.entries
            => \A h \in Gen : First(RemovalOrder, un'.todo, h) => h \in late
      BY Zenon, <1>9
    <2> QED
      BY Zenon, <2>1, <2>2 DEF AddedIsLate, RemovalOrder, First
  <1>11. PurgeOK(un, stateFile, archive)'
    BY Zenon, <1>1 DEF PurgeOK
  <1>12. Quiet => QuietFiles'
    <2> SUFFICES ASSUME Quiet PROVE QuietFiles'
      BY Zenon
    <2>1. /\ \A l \in Link : link[l] = Unlinked
          /\ \A l \in Launcher : launcher[l] = "absent"
          /\ unit = FALSE /\ checkUnits = {} /\ installing = Unlinked
      BY Zenon, NothingPointsAtIt
    <2>2. QuietFiles
      BY Zenon DEF UInv
    <2>3. LinksResolve' /\ UnitKnown' /\ ChecksKnown' /\ InstallsAlone'
      BY Zenon, <1>8, <2>1 DEF LinksResolve, UnitKnown, ChecksKnown, InstallsAlone
    <2>4. "absent" # "edited"
      BY Zenon
    <2>5. LaunchersKnown'
      BY Zenon, <2>1, <2>4 DEF LaunchersKnown, LaunchersAccepted
    <2>6. ProfilesAccepted'
      BY Zenon, <2>2, QuietUnmoved DEF QuietFiles
    <2>7. ASSUME NEW h \in Gen PROVE SealedOrUnderway(h)'
      <3>1. CASE h = g
        BY Zenon, <1>3, <3>1 DEF SealedOrUnderway, GenerationAccepted, EmptyDirectory, Acceptable
      <3>2. CASE h # g
        BY Zenon, <1>3, <1>8, <2>2, <3>2
           DEF QuietFiles, AllSealed, SealedOrUnderway, GenerationAccepted, EmptyDirectory
      <3> QED
        BY Zenon, <3>1, <3>2
    <2> QED
      BY Zenon, <2>3, <2>5, <2>6, <2>7 DEF QuietFiles, AllSealed
  <1>13. Quiet => QuietCommand(un)'
    <2> SUFFICES ASSUME Quiet PROVE QuietCommand(un)'
      BY Zenon
    <2>1. /\ \A l \in Link : link[l] = Unlinked
          /\ \A l \in Launcher : launcher[l] = "absent"
          /\ unit = FALSE /\ checkUnits = {}
      BY Zenon, NothingPointsAtIt
    <2>2. un'.pc = "generation" =>
            \A h \in Gen : First(RemovalOrder, un'.todo, h) =>
              gen'[h].receipt # "install" /\ gen'[h].entries = un'.entries
      BY Zenon, <1>3, <1>9
    <2> QED
      BY Zenon, <2>1, <2>2 DEF QuietCommand, First, RemovalOrder
  <1> QED
    BY Zenon, <1>7, <1>8, <1>10, <1>11, <1>12, <1>13 DEF UInv

LEMMA EnterGenerationSteps ==
  ASSUME UInv, NEW g \in Gen, EnterGeneration(g)
  PROVE  UInv' /\ NothingLost
  <1> DEFINE x == [gen[g] EXCEPT !.receipt = IF @ = "install" THEN "removal" ELSE @]
  <1>1. /\ un.pc = "remove" /\ First(RemovalOrder, un.todo, g)
        /\ un' = [Goto("generation") EXCEPT !.entries = gen[g].entries] /\ late' = late
        /\ UNCHANGED <<link, launcher, unit, checkUnits, profile, stateFile, archive>>
        /\ UNCHANGED <<Outside, budget>>
    BY Zenon DEF EnterGeneration, Entering, Removing, Running
  <1>2. gen' = [gen EXCEPT ![g] = x]
    BY Zenon DEF EnterGeneration
  <1>3. gen[g] \in GenStates /\ (gen[g].present \/ gen[g] = NoGeneration)
    BY Zenon DEF UInv, FilesOK
  <1>4. /\ x \in GenStates /\ x.present = gen[g].present /\ x.entries = gen[g].entries
        /\ x.receipt = (IF gen[g].receipt = "install" THEN "removal" ELSE gen[g].receipt)
    BY Zenon, <1>3 DEF GenStates
  <1>5. gen[g] = NoGeneration => x = NoGeneration
    BY DEF NoGeneration
  <1>6. x.receipt # "install" /\ (Acceptable(gen[g]) => Acceptable(x))
    <2>1. "removal" # "install"
      BY Zenon
    <2>2. Packaged \subseteq Packaged
      BY Zenon
    <2> HIDE DEF x
    <2> QED
      BY Zenon, <1>4, <2>1, <2>2 DEF Acceptable
  <1> HIDE DEF x
  <1>7. /\ "remove" \in RemovalPcs /\ "generation" \in RemovalPcs /\ "generation" \in UninstallPcs
        /\ "remove" \in AfterRecheck
    BY Zenon DEF RemovalPcs, UninstallPcs, ChecksGone, ServiceGone, AfterRecheck
  <1>8. /\ un'.pc = "generation" /\ un'.plan = un.plan /\ un'.todo = un.todo /\ un'.archiveTo = un.archiveTo
        /\ un'.purge = un.purge /\ un'.entries = gen[g].entries /\ IsCommand(un')
    <2>1. un' = Held("generation", un.plan, un.todo, un.archiveTo, un.purge, un.prepared, gen[g].entries)
      BY Zenon, <1>1, GotoSet DEF UInv, CommandOK
    <2> QED
      BY Zenon, <2>1 DEF Held, IsCommand
  <1>9. gen[g].entries \in SUBSET GenerationEntries
    BY Zenon, <1>3 DEF GenStates
  <1>10. CommandOK(un)'
    BY Zenon, <1>7, <1>8, <1>9 DEF UInv, CommandOK, IsCommand
  <1>11. "added" \in gen[g].entries => g \in late
    BY Zenon, <1>1, <1>7 DEF UInv, AddedIsLate
  <1>12. Quiet => Acceptable(x)
    BY Zenon, <1>1, <1>6, <1>7, NothingPointsAtIt
  <1> QED
    BY Zenon, <1>1, <1>2, <1>3, <1>4, <1>5, <1>6, <1>7, <1>8, <1>10, <1>11, <1>12, GenerationSteps

LEMMA RemoveEntrySteps ==
  ASSUME UInv, NEW g \in Gen, RemoveEntry(g)
  PROVE  UInv' /\ NothingLost
  <1>1. /\ un.pc = "generation" /\ First(RemovalOrder, un.todo, g) /\ late' = late
        /\ UNCHANGED <<link, launcher, unit, checkUnits, profile, stateFile, archive>>
        /\ UNCHANGED <<Outside, budget>>
    BY Zenon DEF RemoveEntry, InGeneration, Running
  <1>2. PICK e \in un.entries : /\ gen' = [gen EXCEPT ![g].entries = @ \ {e}]
                                /\ un' = [un EXCEPT !.entries = @ \ {e}]
    BY Zenon DEF RemoveEntry
  <1> DEFINE x == [gen[g] EXCEPT !.entries = @ \ {e}]
  <1>3. gen' = [gen EXCEPT ![g] = x]
    BY Zenon, <1>2
  <1>4. gen[g] \in GenStates /\ (gen[g].present \/ gen[g] = NoGeneration)
    BY Zenon DEF UInv, FilesOK
  <1>5. /\ x \in GenStates /\ x.present = gen[g].present /\ x.entries = gen[g].entries \ {e}
        /\ x.receipt = gen[g].receipt
    BY Zenon, <1>4 DEF GenStates
  <1>6. gen[g] = NoGeneration => x = NoGeneration /\ gen[g].entries = {}
    BY DEF NoGeneration
  <1> HIDE DEF x
  <1>7. "generation" \in RemovalPcs
    BY Zenon DEF RemovalPcs
  <1>8. /\ un'.pc = un.pc /\ un'.plan = un.plan /\ un'.todo = un.todo /\ un'.archiveTo = un.archiveTo
        /\ un'.purge = un.purge /\ un'.entries = un.entries \ {e} /\ IsCommand(un')
    <2>1. un' = Held(un.pc, un.plan, un.todo, un.archiveTo, un.purge, un.prepared, un.entries \ {e})
      BY ZenonT(30), <1>2, CommandSet DEF UInv, CommandOK
    <2> QED
      BY Zenon, <2>1 DEF Held, IsCommand
  <1>9. CommandOK(un)'
    BY Zenon, <1>8 DEF UInv, CommandOK, IsCommand
  <1>10. "added" \in un.entries => g \in late
    BY Zenon, <1>1 DEF UInv, AddedIsLate
  <1>11. Quiet => Acceptable(x) /\ x.receipt # "install" /\ x.entries = un'.entries
    <2> SUFFICES ASSUME Quiet PROVE Acceptable(x) /\ x.receipt # "install" /\ x.entries = un'.entries
      BY Zenon
    <2>1. Acceptable(gen[g]) /\ gen[g].receipt # "install" /\ gen[g].entries = un.entries
      BY Zenon, <1>1, <1>7, NothingPointsAtIt
    <2>2. gen[g].present
      BY Zenon, <1>4, <1>6, <2>1
    <2> QED
      BY Zenon, <1>5, <1>8, <2>1, <2>2 DEF Acceptable
  <1> QED
    BY ZenonT(30), <1>1, <1>3, <1>4, <1>5, <1>6, <1>7, <1>8, <1>9, <1>10, <1>11, GenerationSteps

LEMMA RemoveReceiptSteps ==
  ASSUME UInv, NEW g \in Gen, RemoveReceipt(g)
  PROVE  UInv' /\ NothingLost
  <1> DEFINE x == [gen[g] EXCEPT !.receipt = "none"]
  <1>1. /\ un.pc = "generation" /\ First(RemovalOrder, un.todo, g) /\ late' = late /\ un' = un
        /\ un.entries = {} /\ gen[g].receipt = "removal"
        /\ UNCHANGED <<link, launcher, unit, checkUnits, profile, stateFile, archive>>
        /\ UNCHANGED <<Outside, budget>>
    BY Zenon DEF RemoveReceipt, InGeneration, Running
  <1>2. gen' = [gen EXCEPT ![g] = x]
    BY Zenon DEF RemoveReceipt
  <1>3. gen[g] \in GenStates /\ (gen[g].present \/ gen[g] = NoGeneration)
    BY Zenon DEF UInv, FilesOK
  <1>4. gen[g].present
    BY <1>1, <1>3 DEF NoGeneration
  <1>5. x \in GenStates /\ x.present = gen[g].present /\ x.entries = gen[g].entries /\ x.receipt = "none"
    BY Zenon, <1>3 DEF GenStates
  <1> HIDE DEF x
  <1>6. "generation" \in RemovalPcs /\ "none" # "install"
    BY Zenon DEF RemovalPcs
  <1>7. CommandOK(un)'
    BY Zenon, <1>1 DEF UInv, CommandOK, IsCommand
  <1>8. Quiet => Acceptable(x) /\ x.receipt # "install" /\ x.entries = un.entries
    BY Zenon, <1>1, <1>4, <1>5, <1>6, NothingPointsAtIt DEF Acceptable
  <1> QED
    BY Zenon, <1>1, <1>2, <1>4, <1>5, <1>6, <1>7, <1>8, GenerationSteps

LEMMA RemoveDirectorySteps ==
  ASSUME UInv, NEW g \in Gen, RemoveDirectory(g)
  PROVE  UInv' /\ NothingLost
  <1>1. /\ un.pc = "generation" /\ First(RemovalOrder, un.todo, g)
        /\ UNCHANGED <<link, launcher, unit, checkUnits, profile, stateFile, archive>>
        /\ UNCHANGED <<Outside, budget>>
    BY Zenon DEF RemoveDirectory, InGeneration, Running
  <1>2. CASE Leave /\ UNCHANGED gen
    BY Zenon, <1>1, <1>2, LeaveSteps DEF Files
  <1>3. CASE /\ gen' = [gen EXCEPT ![g] = NoGeneration]
             /\ un' = [Goto("remove") EXCEPT !.todo = @ \ {g}] /\ late' = late
    <2>1. /\ NoGeneration \in GenStates /\ Acceptable(NoGeneration) /\ NoGeneration.entries = {}
      BY Zenon DEF NoGeneration, GenStates, Acceptable
    <2>2. /\ un'.pc = "remove" /\ un'.plan = un.plan /\ un'.todo = un.todo \ {g} /\ un'.archiveTo = un.archiveTo
          /\ un'.purge = un.purge /\ un'.entries = un.entries /\ IsCommand(un')
      <3> DEFINE u == Goto("remove")
      <3>1. /\ u.pc = "remove" /\ u.plan = un.plan /\ u.todo = un.todo /\ u.archiveTo = un.archiveTo
            /\ u.purge = un.purge /\ u.prepared = un.prepared /\ u.entries = un.entries /\ IsCommand(u)
        BY Zenon, GotoParts DEF UInv, CommandOK
      <3>2. un' = [u EXCEPT !.todo = @ \ {g}]
        BY Zenon, <1>3
      <3> HIDE DEF u
      <3>3. un' = Held("remove", un.plan, un.todo \ {g}, un.archiveTo, un.purge, un.prepared, un.entries)
        BY Zenon, <3>1, <3>2 DEF Held, IsCommand
      <3> QED
        BY Zenon, <3>3 DEF Held, IsCommand
    <2>3. /\ "generation" \in RemovalPcs /\ "remove" \in RemovalPcs /\ "remove" \in UninstallPcs
          /\ "remove" # "generation"
      BY Zenon DEF RemovalPcs, UninstallPcs, ChecksGone, ServiceGone, AfterRecheck
    <2>4. CommandOK(un)'
      BY Zenon, <2>2, <2>3 DEF UInv, CommandOK, IsCommand
    <2>5. "added" \notin NoGeneration.entries
      BY Zenon, <2>1
    <2> QED
      BY Zenon, <1>1, <1>3, <2>1, <2>2, <2>3, <2>4, <2>5, GenerationSteps
  <1> QED
    BY Zenon, <1>2, <1>3 DEF RemoveDirectory

LEMMA LeavingSteps ==
  ASSUME UInv, UninstallReturns \/ UninstallDies \/ UpdateServiceRefused
  PROVE  UInv' /\ NothingLost
  BY Zenon, LeaveSteps DEF UninstallReturns, UninstallDies, UpdateServiceRefused

----------------------------------------------------------------------------
(* Everyone else.                                                            *)

LEMMA Spending ==
  ASSUME OthersOK
  PROVE  /\ Spend("write") => budget' \in [write : Nat, damage : Nat, install : Nat]
                              /\ (budget'.damage = 0 => budget.damage = 0)
         /\ Spend("install") => budget' \in [write : Nat, damage : Nat, install : Nat]
                                /\ (budget'.damage = 0 => budget.damage = 0)
         /\ Spend("damage") => budget' \in [write : Nat, damage : Nat, install : Nat]
                               /\ budget'.damage # 0
  <1>1. budget \in [write : Nat, damage : Nat, install : Nat]
    BY Zenon DEF OthersOK
  <1>2. ASSUME Spend("write")
        PROVE  budget' \in [write : Nat, damage : Nat, install : Nat] /\ budget'.damage = budget.damage
    BY <1>1, <1>2 DEF Spend
  <1>3. ASSUME Spend("install")
        PROVE  budget' \in [write : Nat, damage : Nat, install : Nat] /\ budget'.damage = budget.damage
    BY <1>1, <1>3 DEF Spend
  <1>4. ASSUME Spend("damage")
        PROVE  budget' \in [write : Nat, damage : Nat, install : Nat] /\ budget'.damage = budget.damage + 1
    BY <1>1, <1>4 DEF Spend
  <1>5. budget.damage \in Nat
    BY Zenon, <1>1
  <1>6. budget.damage + 1 # 0
    BY <1>5
  <1> QED
    BY Zenon, <1>2, <1>3, <1>4, <1>6

LEMMA IdleSays ==
  ASSUME un' = un, un.pc = "idle"
  PROVE  QuietCommand(un)'
  <1>1. "idle" \notin ChecksGone \cup ServiceGone \cup AfterRecheck \cup RemovalPcs /\ "idle" # "generation"
    BY Zenon DEF ChecksGone, ServiceGone, AfterRecheck, RemovalPcs
  <1> QED
    BY Zenon, <1>1 DEF QuietCommand

LEMMA PlaceRuntimeSteps ==
  ASSUME UInv, NEW g \in Gen, PlaceRuntime(g)
  PROVE  UInv' /\ NothingLost
  <1>1. /\ installing = Unlinked /\ ~gen[g].present /\ Spend("install") /\ gen' = [gen EXCEPT ![g] = Unsealed]
        /\ launcher' = [l \in Launcher |-> "managed"] /\ unit' = TRUE /\ installing' = g
        /\ overlapped' = (overlapped \/ un.pc # "idle")
        /\ UNCHANGED <<checkUnits, stateFile, archive, un, late>>
    BY Zenon DEF PlaceRuntime
  <1> DEFINE prev == IF link["current"] # Unlinked /\ gen[link["current"]].present
                     THEN link["current"] ELSE Unlinked
  <1>2. link' = [current |-> g, previous |-> prev]
    BY Zenon DEF PlaceRuntime
  <1>3. profile' = [profile EXCEPT ![Profiles[1]].block = IF @ = "none" THEN "exact" ELSE @]
    BY Zenon DEF PlaceRuntime
  <1>4. FilesOK
    BY Zenon DEF UInv
  <1>5. gen \in [Gen -> GenStates] /\ Unsealed \in GenStates /\ Unsealed.present /\ "added" \notin Unsealed.entries
    BY Zenon, <1>4 DEF FilesOK, Unsealed, GenStates, GenerationEntries, Packaged
  <1>6. gen' \in [Gen -> GenStates] /\ gen'[g] = Unsealed /\ \A h \in Gen \ {g} : gen'[h] = gen[h]
    BY Zenon, <1>1, <1>5
  <1>7. prev \in Gen \cup {Unlinked} /\ (prev # Unlinked => gen[prev].present)
    <2>1. link["current"] \in Gen \cup {Unlinked}
      BY Zenon, <1>4 DEF FilesOK, Link
    <2> QED
      BY Zenon, <2>1
  <1> HIDE DEF prev
  <1>8. /\ link' \in [Link -> Gen \cup {Unlinked}] /\ link'["current"] = g /\ link'["previous"] = prev
    BY <1>2, <1>7 DEF Link
  <1>9. /\ launcher' \in [Launcher -> {"absent", "managed", "edited"}]
        /\ \A l \in Launcher : launcher'[l] = "managed"
    BY Zenon, <1>1
  <1>10. Profiles[1] \in Profile /\ profile \in [Profile -> ProfileStates]
    BY <1>4, UninstallAssumption DEF FilesOK
  <1>11. /\ profile' \in [Profile -> ProfileStates] /\ \A q \in Profile : profile'[q].text = profile[q].text
         /\ \A q \in Profile : profile[q].block # "edited" => profile'[q].block # "edited"
    BY Zenon, <1>3, <1>10 DEF ProfileStates
  <1>12. FilesOK'
    BY ZenonT(30), <1>1, <1>4, <1>5, <1>6, <1>8, <1>9, <1>11 DEF FilesOK
  <1>13. NothingLost
    <2>1. "added" \notin gen[g].entries
      BY <1>1, <1>4 DEF FilesOK, NoGeneration
    <2>2. AddedKept
      BY Zenon, <1>6, <2>1 DEF AddedKept
    <2>3. \A q \in Profile : profile[q].text \in Nat
      BY Zenon, <1>10 DEF ProfileStates
    <2>4. TextKept
      BY <1>11, <2>3 DEF TextKept
    <2> QED
      BY Zenon, <1>1, <1>4, <2>2, <2>4, KeptUnmoved DEF NothingLost
  <1>14. OthersOK' /\ (Quiet' => Quiet /\ un.pc = "idle")
    BY Zenon, <1>1, Spending DEF UInv, OthersOK, Quiet
  <1>15. AddedIsLate(un)'
    BY Zenon, <1>1, <1>5, <1>6 DEF UInv, AddedIsLate, First, RemovalOrder
  <1>16. CommandOK(un)' /\ PurgeOK(un, stateFile, archive)'
    BY Zenon, <1>1 DEF UInv, CommandOK, IsCommand, PurgeOK
  <1>17. ASSUME Quiet' PROVE QuietFiles'
    <2>1. Quiet /\ un.pc = "idle" /\ QuietFiles
      BY Zenon, <1>14, <1>17 DEF UInv
    <2>2. Unlinked \notin Gen
      BY Zenon, UninstallAssumption
    <2>3. \A l \in Link : l = "current" \/ l = "previous"
      BY Zenon DEF Link
    <2>4. LinksResolve'
      BY Zenon, <1>5, <1>6, <1>7, <1>8, <2>3 DEF LinksResolve
    <2>5. ProfilesAccepted'
      BY Zenon, <1>11, <2>1 DEF QuietFiles, ProfilesAccepted
    <2>6. ASSUME NEW h \in Gen PROVE SealedOrUnderway(h)'
      <3>1. CASE h = g
        BY Zenon, <1>1, <1>6, <3>1 DEF SealedOrUnderway
      <3>2. CASE h # g
        BY Zenon, <1>1, <1>6, <2>1, <2>2, <3>2
           DEF QuietFiles, AllSealed, SealedOrUnderway, GenerationAccepted, EmptyDirectory
      <3> QED
        BY Zenon, <3>1, <3>2
    <2>7. "managed" # "edited" /\ "managed" # "absent" /\ "seckit" \in Launcher
      BY Zenon DEF Launcher
    <2>8. LaunchersKnown' /\ UnitKnown' /\ ChecksKnown'
      BY Zenon, <1>1, <1>5, <1>6, <1>9, <2>2, <2>7 DEF LaunchersKnown, UnitKnown, ChecksKnown
    <2>9. InstallsAlone'
      BY Zenon, <1>1, <1>6, <1>9, <2>1 DEF InstallsAlone
    <2> QED
      BY Zenon, <2>4, <2>5, <2>6, <2>8, <2>9 DEF QuietFiles, AllSealed
  <1> QED
    BY Zenon, <1>1, <1>12, <1>13, <1>14, <1>15, <1>16, <1>17, IdleSays DEF UInv

LEMMA RecordInstallationSteps ==
  ASSUME UInv, RecordInstallation
  PROVE  UInv' /\ NothingLost
  <1> DEFINE g == installing
             seals == /\ gen[g].present /\ gen[g].receipt = "none" /\ gen[g].entries = Packaged
                      /\ \A l \in Launcher : launcher[l] # "absent"
             x == [gen[g] EXCEPT !.receipt = "install"]
  <1>1. /\ installing # Unlinked /\ installing' = Unlinked /\ overlapped' = (overlapped \/ un.pc # "idle")
        /\ UNCHANGED <<link, launcher, unit, checkUnits, profile, stateFile, archive, un, late, budget>>
    BY Zenon DEF RecordInstallation
  <1>2. gen' = IF seals THEN [gen EXCEPT ![g] = x] ELSE gen
    BY Zenon DEF RecordInstallation
  <1>3. FilesOK /\ OthersOK
    BY Zenon DEF UInv
  <1>4. g \in Gen /\ gen \in [Gen -> GenStates] /\ gen[g] \in GenStates
    BY Zenon, <1>1, <1>3 DEF OthersOK, FilesOK
  <1>5. x \in GenStates /\ x.present = gen[g].present /\ x.entries = gen[g].entries /\ x.receipt = "install"
    BY Zenon, <1>4 DEF GenStates
  <1> HIDE DEF x
  <1>6. /\ gen' \in [Gen -> GenStates]
        /\ \A h \in Gen : gen'[h].present = gen[h].present /\ gen'[h].entries = gen[h].entries
        /\ \A h \in Gen \ {g} : gen'[h] = gen[h]
        /\ ~seals => gen'[g] = gen[g]
        /\ seals => gen'[g] = x
    <2> HIDE DEF seals
    <2>1. CASE seals
      <3>1. gen' \in [Gen -> GenStates] /\ gen'[g] = x /\ \A h \in Gen \ {g} : gen'[h] = gen[h]
        BY Zenon, <1>2, <1>4, <1>5, <2>1
      <3> QED
        BY Zenon, <1>5, <2>1, <3>1
    <2>2. CASE ~seals
      BY Zenon, <1>2, <1>4, <2>2
    <2> QED
      BY Zenon, <2>1, <2>2
  <1>7. \A h \in Gen : gen'[h].present \/ gen'[h] = NoGeneration
    BY Zenon, <1>3, <1>6 DEF FilesOK
  <1>8. FilesOK'
    BY Zenon, <1>1, <1>3, <1>6, <1>7 DEF FilesOK
  <1>9. NothingLost
    <2>1. AddedKept
      BY Zenon, <1>6 DEF AddedKept
    <2> QED
      BY Zenon, <1>1, <1>3, <2>1, KeptUnmoved DEF NothingLost
  <1>10. OthersOK' /\ (Quiet' => Quiet /\ un.pc = "idle")
    BY Zenon, <1>1, <1>3 DEF OthersOK, Quiet
  <1>11. AddedIsLate(un)'
    BY Zenon, <1>1, <1>6 DEF UInv, AddedIsLate, First, RemovalOrder
  <1>12. CommandOK(un)' /\ PurgeOK(un, stateFile, archive)'
    BY Zenon, <1>1 DEF UInv, CommandOK, IsCommand, PurgeOK
  <1>13. ASSUME Quiet' PROVE QuietFiles'
    <2>1. Quiet /\ un.pc = "idle" /\ QuietFiles
      BY Zenon, <1>10, <1>13 DEF UInv
    <2>2. gen[g] = Unsealed /\ \A l \in Launcher : launcher[l] = "managed"
      BY Zenon, <1>1, <2>1 DEF QuietFiles, InstallsAlone
    <2>3. Unsealed.present /\ Unsealed.receipt = "none" /\ Unsealed.entries = Packaged
      BY Zenon DEF Unsealed
    <2>4. "managed" # "absent" /\ "managed" # "edited" /\ "install" # "none"
      BY Zenon
    <2>5. gen'[g] = x
      BY Zenon, <1>6, <2>2, <2>3, <2>4
    <2>6. LinksResolve'
      <3>1. \A l \in Link : link[l] # Unlinked => link[l] \in Gen
        BY Zenon, <1>3 DEF FilesOK
      <3> QED
        BY Zenon, <1>1, <1>6, <2>1, <3>1 DEF QuietFiles, LinksResolve
    <2>7. ProfilesAccepted' /\ ChecksKnown' /\ InstallsAlone'
      BY Zenon, <1>1, <2>1, QuietUnmoved DEF QuietFiles, InstallsAlone
    <2>8. UnitKnown'
      BY Zenon, <1>1, <1>6, <2>1 DEF QuietFiles, UnitKnown
    <2>9. LaunchersKnown'
      BY Zenon, <1>1, <1>4, <1>5, <2>2, <2>3, <2>4, <2>5 DEF LaunchersKnown, LaunchersAccepted, HasReceipt
    <2>10. ASSUME NEW h \in Gen PROVE SealedOrUnderway(h)'
      <3>1. CASE h = g
        BY Zenon, <1>5, <2>2, <2>3, <2>5, <3>1 DEF SealedOrUnderway, GenerationAccepted
      <3>2. CASE h # g
        BY Zenon, <1>6, <2>1, <3>2
           DEF QuietFiles, AllSealed, SealedOrUnderway, GenerationAccepted, EmptyDirectory
      <3> QED
        BY Zenon, <3>1, <3>2
    <2> QED
      BY Zenon, <2>6, <2>7, <2>8, <2>9, <2>10 DEF QuietFiles, AllSealed
  <1> QED
    BY Zenon, <1>1, <1>8, <1>9, <1>10, <1>11, <1>12, <1>13, IdleSays DEF UInv

LEMMA InstallerDiesSteps ==
  ASSUME UInv, InstallerDies
  PROVE  UInv' /\ NothingLost
  <1>1. /\ Spend("damage") /\ installing' = Unlinked
        /\ UNCHANGED <<gen, link, launcher, unit, checkUnits, profile, stateFile, archive, un, late, overlapped>>
    BY Zenon DEF InstallerDies, Files
  <1>2. OthersOK' /\ ~Quiet'
    BY Zenon, <1>1, Spending DEF UInv, OthersOK, Quiet
  <1>3. FilesOK' /\ NothingLost
    BY Zenon, <1>1, KeptUnmoved DEF UInv, FilesOK, NothingLost
  <1>4. CommandOK(un)' /\ PurgeOK(un, stateFile, archive)' /\ AddedIsLate(un)'
    BY Zenon, <1>1 DEF UInv, CommandOK, IsCommand, PurgeOK, AddedIsLate, First, RemovalOrder
  <1> QED
    BY Zenon, <1>2, <1>3, <1>4 DEF UInv

LEMMA UpdateServiceInstallsSteps ==
  ASSUME UInv, UpdateServiceInstalls
  PROVE  UInv' /\ NothingLost
  <1>1. /\ Spend("install") /\ launcher["seckit"] # "absent" /\ overlapped' = (overlapped \/ un.pc # "idle")
        /\ UNCHANGED <<gen, link, launcher, unit, profile, stateFile, archive, un, late, installing>>
    BY Zenon DEF UpdateServiceInstalls
  <1>2. FilesOK /\ OthersOK
    BY Zenon DEF UInv
  <1>3. checkUnits' \in SUBSET CheckUnit
    <2>1. {"service"} \in SUBSET CheckUnit
      BY Zenon DEF CheckUnit
    <2> QED
      BY Zenon, <1>2, <2>1 DEF UpdateServiceInstalls, FilesOK
  <1>4. FilesOK' /\ NothingLost
    BY Zenon, <1>1, <1>2, <1>3, KeptUnmoved DEF FilesOK, NothingLost
  <1>5. OthersOK' /\ (Quiet' => Quiet /\ un.pc = "idle")
    BY Zenon, <1>1, <1>2, Spending DEF OthersOK, Quiet
  <1>6. CommandOK(un)' /\ PurgeOK(un, stateFile, archive)' /\ AddedIsLate(un)'
    BY Zenon, <1>1 DEF UInv, CommandOK, IsCommand, PurgeOK, AddedIsLate, First, RemovalOrder
  <1>7. ASSUME Quiet' PROVE QuietFiles'
    BY Zenon, <1>1, <1>5, <1>7, QuietUnmoved DEF UInv, QuietFiles, ChecksKnown
  <1> QED
    BY Zenon, <1>1, <1>4, <1>5, <1>6, <1>7, IdleSays DEF UInv

LEMMA AddToGenerationSteps ==
  ASSUME UInv, NEW g \in Gen, AddToGeneration(g)
  PROVE  UInv' /\ NothingLost
  <1> DEFINE x == [gen[g] EXCEPT !.entries = @ \cup {"added"}]
  <1>1. /\ Spend("damage") /\ gen[g].present
        /\ late' = IF un.pc = "idle" THEN late ELSE late \cup {g}
        /\ UNCHANGED <<link, launcher, unit, checkUnits, profile, stateFile, archive, un>>
        /\ UNCHANGED <<installing, overlapped>>
    BY Zenon DEF AddToGeneration, Outside
  <1>2. gen' = [gen EXCEPT ![g] = x]
    BY Zenon DEF AddToGeneration
  <1>3. FilesOK /\ OthersOK
    BY Zenon DEF UInv
  <1>4. gen \in [Gen -> GenStates] /\ gen[g] \in GenStates
    BY Zenon, <1>3 DEF FilesOK
  <1>5. x \in GenStates /\ x.present = gen[g].present /\ x.entries = gen[g].entries \cup {"added"}
    BY Zenon, <1>4 DEF GenStates, GenerationEntries
  <1> HIDE DEF x
  <1>6. gen' \in [Gen -> GenStates] /\ gen'[g] = x /\ \A h \in Gen \ {g} : gen'[h] = gen[h]
    BY Zenon, <1>2, <1>4, <1>5
  <1>7. \A h \in Gen : gen'[h].present \/ gen'[h] = NoGeneration
    BY Zenon, <1>1, <1>3, <1>5, <1>6 DEF FilesOK
  <1>8. FilesOK'
    BY Zenon, <1>1, <1>3, <1>6, <1>7 DEF FilesOK
  <1>9. NothingLost
    <2>1. AddedKept
      BY Zenon, <1>5, <1>6 DEF AddedKept
    <2> QED
      BY Zenon, <1>1, <1>3, <2>1, KeptUnmoved DEF NothingLost
  <1>10. late' \in SUBSET Gen /\ late \subseteq late' /\ (un.pc # "idle" => g \in late')
    BY Zenon, <1>1, <1>3 DEF OthersOK
  <1>11. OthersOK' /\ ~Quiet'
    BY Zenon, <1>1, <1>3, <1>10, Spending DEF OthersOK, Quiet
  <1>12. "idle" \notin AfterRecheck
    BY Zenon DEF AfterRecheck, RemovalPcs
  <1>13. AddedIsLate(un)'
    BY Zenon, <1>1, <1>6, <1>10, <1>12 DEF UInv, AddedIsLate, First, RemovalOrder
  <1>14. CommandOK(un)' /\ PurgeOK(un, stateFile, archive)'
    BY Zenon, <1>1 DEF UInv, CommandOK, IsCommand, PurgeOK
  <1> QED
    BY Zenon, <1>8, <1>9, <1>11, <1>13, <1>14 DEF UInv

LEMMA EditManagedSteps ==
  ASSUME UInv, EditManaged
  PROVE  UInv' /\ NothingLost
  <1>1. /\ Spend("damage")
        /\ UNCHANGED <<gen, link, unit, checkUnits, stateFile, archive, un, late>>
        /\ UNCHANGED <<installing, overlapped>>
    BY Zenon DEF EditManaged, Outside
  <1>2. FilesOK /\ OthersOK
    BY Zenon DEF UInv
  <1>3. OthersOK' /\ ~Quiet'
    BY Zenon, <1>1, <1>2, Spending DEF OthersOK, Quiet
  <1>4. CommandOK(un)' /\ PurgeOK(un, stateFile, archive)' /\ AddedIsLate(un)'
    BY Zenon, <1>1 DEF UInv, CommandOK, IsCommand, PurgeOK, AddedIsLate, First, RemovalOrder
  <1>5. FilesOK' /\ TextKept
    <2>1. ASSUME NEW l \in Launcher, launcher' = [launcher EXCEPT ![l] = "edited"], UNCHANGED profile
          PROVE  FilesOK' /\ TextKept
      <3>1. launcher' \in [Launcher -> {"absent", "managed", "edited"}]
        BY Zenon, <1>2, <2>1 DEF FilesOK
      <3> QED
        BY Zenon, <1>1, <1>2, <2>1, <3>1, KeptUnmoved DEF FilesOK
    <2>2. ASSUME NEW p \in Profile, profile' = [profile EXCEPT ![p].block = "edited"], UNCHANGED launcher
          PROVE  FilesOK' /\ TextKept
      <3>1. profile \in [Profile -> ProfileStates]
        BY Zenon, <1>2 DEF FilesOK
      <3>2. profile' \in [Profile -> ProfileStates] /\ \A q \in Profile : profile'[q].text = profile[q].text
        BY Zenon, <2>2, <3>1 DEF ProfileStates
      <3>3. \A q \in Profile : profile[q].text \in Nat
        BY Zenon, <3>1 DEF ProfileStates
      <3>4. TextKept
        BY <3>2, <3>3 DEF TextKept
      <3> QED
        BY Zenon, <1>1, <1>2, <2>2, <3>2, <3>4 DEF FilesOK
    <2> QED
      BY Zenon, <2>1, <2>2 DEF EditManaged
  <1> QED
    BY Zenon, <1>1, <1>2, <1>3, <1>4, <1>5, KeptUnmoved DEF UInv, NothingLost

LEMMA EditOwnTextSteps ==
  ASSUME UInv, NEW p \in Profile, EditOwnText(p)
  PROVE  UInv' /\ NothingLost
  <1>1. /\ Spend("write") /\ profile' = [profile EXCEPT ![p].text = @ + 1]
        /\ UNCHANGED <<gen, link, launcher, unit, checkUnits, stateFile, archive, un, late>>
        /\ UNCHANGED <<installing, overlapped>>
    BY Zenon DEF EditOwnText, Outside
  <1>2. FilesOK /\ OthersOK
    BY Zenon DEF UInv
  <1>3. OthersOK' /\ (Quiet' => Quiet)
    BY Zenon, <1>1, <1>2, Spending DEF OthersOK, Quiet
  <1>4. CommandOK(un)' /\ PurgeOK(un, stateFile, archive)' /\ AddedIsLate(un)'
    BY Zenon, <1>1 DEF UInv, CommandOK, IsCommand, PurgeOK, AddedIsLate, First, RemovalOrder
  <1>5. profile \in [Profile -> ProfileStates]
    BY Zenon, <1>2 DEF FilesOK
  <1>6. \A q \in Profile : profile[q].text \in Nat
    BY Zenon, <1>5 DEF ProfileStates
  <1>7. /\ profile' \in [Profile -> ProfileStates] /\ profile'[p].text = profile[p].text + 1
        /\ \A q \in Profile : profile'[q].block = profile[q].block
        /\ \A q \in Profile \ {p} : profile'[q].text = profile[q].text
    BY <1>1, <1>5 DEF ProfileStates
  <1>8. FilesOK' /\ NothingLost
    <2>1. TextKept
      BY <1>6, <1>7 DEF TextKept
    <2> QED
      BY Zenon, <1>1, <1>2, <1>7, <2>1, KeptUnmoved DEF FilesOK, NothingLost
  <1>9. ASSUME Quiet PROVE QuietFiles' /\ QuietCommand(un)'
    <2>1. ProfilesAccepted'
      BY Zenon, <1>7, <1>9 DEF UInv, QuietFiles, ProfilesAccepted
    <2>2. InstallsAlone'
      BY Zenon, <1>1, <1>9 DEF UInv, QuietFiles, InstallsAlone
    <2>3. QuietFiles'
      BY Zenon, <1>1, <1>9, <2>1, <2>2, QuietUnmoved DEF UInv, QuietFiles
    <2>4. QuietCommand(un)'
      BY Zenon, <1>1, <1>9 DEF UInv, QuietCommand, First, RemovalOrder
    <2> QED
      BY Zenon, <2>3, <2>4
  <1> QED
    BY Zenon, <1>3, <1>4, <1>8, <1>9 DEF UInv

LEMMA WriteStateSteps ==
  ASSUME UInv, NEW f \in StateFile, WriteState(f)
  PROVE  UInv' /\ NothingLost
  <1>1. /\ Spend("write") /\ stateFile' = [stateFile EXCEPT ![f] = @ + 1]
        /\ UNCHANGED <<gen, link, launcher, unit, checkUnits, profile, archive, un, late>>
        /\ UNCHANGED <<installing, overlapped>>
    BY Zenon DEF WriteState, Outside
  <1>2. FilesOK /\ OthersOK /\ CommandOK(un) /\ PurgeOK(un, stateFile, archive)
    BY Zenon DEF UInv
  <1>3. OthersOK' /\ (Quiet' => Quiet)
    BY Zenon, <1>1, <1>2, Spending DEF OthersOK, Quiet
  <1>4. stateFile \in [StateFile -> Nat] /\ \A h \in StateFile : stateFile[h] \in Nat
    BY Zenon, <1>2 DEF FilesOK
  <1>5. /\ stateFile' \in [StateFile -> Nat] /\ stateFile'[f] = stateFile[f] + 1
        /\ \A h \in StateFile \ {f} : stateFile'[h] = stateFile[h]
    BY <1>1, <1>4
  <1>6. \A h \in StateFile : stateFile'[h] >= stateFile[h] /\ stateFile'[h] \in Nat
    BY <1>4, <1>5
  <1>7. FilesOK'
    BY Zenon, <1>1, <1>2, <1>5 DEF FilesOK
  <1>8. NothingLost
    <2>1. \A h \in StateFile : stateFile[h] # 0 => stateFile'[h] # 0
      BY <1>4, <1>5
    <2>2. PurgedKept
      BY Zenon, <2>1 DEF PurgedKept
    <2> QED
      BY Zenon, <1>1, <1>2, <2>2, KeptUnmoved DEF NothingLost
  <1>9. CommandOK(un)' /\ AddedIsLate(un)'
    BY Zenon, <1>1 DEF UInv, CommandOK, IsCommand, AddedIsLate, First, RemovalOrder
  <1>10. PurgeOK(un, stateFile, archive)'
    <2>1. \A h \in un.purge : h \in StateFile
      BY Zenon, <1>2 DEF CommandOK
    <2>2. un.pc \in {"archive", "purge", "purging"} => \A h \in un.purge : un.prepared[h] \in Nat
      BY Zenon, <1>2 DEF PurgeOK
    <2>3. un.pc \in {"archive", "purge"} => \A h \in un.purge : un.prepared[h] <= stateFile'[h]
      <3>1. un.pc \in {"archive", "purge"} => \A h \in un.purge : un.prepared[h] <= stateFile[h]
        BY Zenon, <1>2 DEF PurgeOK
      <3> QED
        BY SMT, <1>4, <1>6, <2>1, <2>2, <3>1
    <2>4. un.pc = "purge" /\ un.archiveTo # "none"
            => \A h \in un.purge : archive[un.archiveTo][h] <= stateFile'[h]
      <3> SUFFICES ASSUME un.pc = "purge", un.archiveTo # "none", NEW h \in un.purge
                   PROVE  archive[un.archiveTo][h] <= stateFile'[h]
        BY Zenon
      <3>1. archive[un.archiveTo][h] <= stateFile[h] /\ archive[un.archiveTo] # NoArchive
        BY Zenon, <1>2 DEF PurgeOK
      <3>2. un.archiveTo \in Destinations
        BY Zenon, <1>2 DEF CommandOK
      <3>3. archive[un.archiveTo] \in [StateFile -> Nat]
        BY Zenon, <1>2, <3>1, <3>2 DEF FilesOK, Archives
      <3>4. archive[un.archiveTo][h] \in Nat
        BY Zenon, <2>1, <3>3
      <3> QED
        BY SMTT(30), <1>4, <1>6, <2>1, <3>1, <3>4
    <2> QED
      BY Zenon, <1>1, <1>2, <2>3, <2>4 DEF PurgeOK
  <1>11. ASSUME Quiet PROVE QuietFiles' /\ QuietCommand(un)'
    <2>1. InstallsAlone'
      BY Zenon, <1>1, <1>11 DEF UInv, QuietFiles, InstallsAlone
    <2>2. QuietFiles'
      BY Zenon, <1>1, <1>11, <2>1, QuietUnmoved DEF UInv, QuietFiles
    <2>3. QuietCommand(un)'
      BY Zenon, <1>1, <1>11 DEF UInv, QuietCommand, First, RemovalOrder
    <2> QED
      BY Zenon, <2>2, <2>3
  <1> QED
    BY Zenon, <1>3, <1>7, <1>8, <1>9, <1>10, <1>11 DEF UInv

----------------------------------------------------------------------------

LEMMA UninstallBegins ==
  ASSUME UninstallInit
  PROVE  UInv
  <1>1. Generations[1] \in Gen /\ Unlinked \notin Gen
    BY UninstallAssumption
  <1>2. Sealed \in GenStates /\ NoGeneration \in GenStates /\ Sealed.present
    BY Zenon DEF Sealed, NoGeneration, GenStates, GenerationEntries
  <1>3. Sealed.receipt = "install" /\ Sealed.entries = Packaged /\ ~NoGeneration.present
    BY Zenon DEF Sealed, NoGeneration
  <1>4. gen \in [Gen -> GenStates] /\ \A g \in Gen : gen[g] = IF g = Generations[1] THEN Sealed ELSE NoGeneration
    BY Zenon, <1>2 DEF UninstallInit
  <1>5. /\ link \in [Link -> Gen \cup {Unlinked}]
        /\ \A l \in Link : link[l] # Unlinked => link[l] = Generations[1]
    BY Zenon, <1>1 DEF UninstallInit
  <1>6. /\ launcher \in [Launcher -> {"absent", "managed", "edited"}]
        /\ \A l \in Launcher : launcher[l] = "managed"
    BY Zenon DEF UninstallInit
  <1>7. profile \in [Profile -> ProfileStates] /\ \A p \in Profile : profile[p].block = "exact"
    BY Zenon DEF UninstallInit, ProfileStates
  <1>8. stateFile \in [StateFile -> Nat] /\ archive \in [Destinations -> Archives]
    BY Zenon DEF UninstallInit, Archives
  <1>9. unit = TRUE /\ checkUnits \in SUBSET CheckUnit /\ un = NotRunning
    BY Zenon DEF UninstallInit
  <1>10. installing = Unlinked /\ late = {} /\ overlapped = FALSE
    BY Zenon DEF UninstallInit
  <1>11. budget \in [write : Nat, damage : Nat, install : Nat]
    BY Zenon DEF UninstallInit
  <1>12. FilesOK
    BY Zenon, <1>2, <1>4, <1>5, <1>6, <1>7, <1>8, <1>9 DEF FilesOK
  <1>13. OthersOK
    BY Zenon, <1>10, <1>11 DEF OthersOK
  <1>14. CommandOK(un) /\ AddedIsLate(un) /\ PurgeOK(un, stateFile, archive) /\ QuietCommand(un)
    BY Zenon, <1>9, NothingRuns
  <1>15. QuietFiles
    <2>1. LinksResolve
      BY ZenonT(30), <1>1, <1>2, <1>4, <1>5 DEF LinksResolve
    <2>2. ProfilesAccepted
      <3>1. "exact" # "edited"
        BY Zenon
      <3> QED
        BY Zenon, <1>7, <3>1 DEF ProfilesAccepted
    <2>3. AllSealed
      BY Zenon, <1>3, <1>4 DEF AllSealed, SealedOrUnderway, GenerationAccepted
    <2>4. "managed" # "edited" /\ "managed" # "absent" /\ "install" # "none" /\ "seckit" \in Launcher
      BY Zenon DEF Launcher
    <2>5. HasReceipt(Generations[1])
      BY Zenon, <1>1, <1>2, <1>3, <1>4, <2>4 DEF HasReceipt
    <2>6. LaunchersKnown /\ ChecksKnown
      BY Zenon, <1>1, <1>6, <2>4, <2>5 DEF LaunchersKnown, LaunchersAccepted, ChecksKnown
    <2>7. UnitKnown /\ InstallsAlone
      BY Zenon, <1>1, <1>2, <1>4, <1>10 DEF UnitKnown, InstallsAlone
    <2> QED
      BY Zenon, <2>1, <2>2, <2>3, <2>6, <2>7 DEF QuietFiles
  <1> QED
    BY Zenon, <1>12, <1>13, <1>14, <1>15 DEF UInv

LEMMA UninstallSteps ==
  ASSUME UInv, [UninstallNext]_uninstallVars
  PROVE  UInv' /\ [NothingLost]_uninstallVars
  <1>1. CASE UninstallStep
    BY ZenonT(30), <1>1, UpdateServiceAbsentSteps, LeavingSteps, UpdateServiceUnlinksSteps, StopRuntimeSteps,
       StopRuntimeFailsSteps, RecheckSteps, CreateStateArchiveSteps, PurgeChecksSteps, PurgeFileSteps,
       PurgedSteps, PrepareProfilesSteps, EditProfileSteps, ProfilesEditedSteps, RemoveLinkSteps,
       RemoveLauncherSteps, EnterGenerationSteps, RemoveEntrySteps, RemoveReceiptSteps,
       RemoveDirectorySteps
       DEF UninstallStep
  <1>2. CASE Others
    BY Zenon, <1>2, PlaceRuntimeSteps, AddToGenerationSteps, RecordInstallationSteps, InstallerDiesSteps,
       UpdateServiceInstallsSteps, EditManagedSteps, EditOwnTextSteps, WriteStateSteps DEF Others
  <1>3. CASE UninstallDies
    BY Zenon, <1>3, LeavingSteps
  <1>4. ASSUME NEW files \in {{}, Family, {"sqlite"}}, NEW to \in Destinations \cup {"none"},
               UninstallStarts(files, to)
        PROVE  UInv' /\ NothingLost
    BY Zenon, <1>4, UninstallStartsSteps
  <1>5. CASE UNCHANGED uninstallVars
    <2>1. UNCHANGED <<gen, link, launcher, unit, checkUnits, profile, stateFile, archive>>
          /\ UNCHANGED <<un, installing, late, overlapped, budget>>
      BY Zenon, <1>5 DEF uninstallVars
    <2>2. FilesOK' /\ CommandOK(un)' /\ OthersOK'
      BY Zenon, <2>1 DEF UInv, FilesOK, CommandOK, IsCommand, OthersOK
    <2>3. AddedIsLate(un)' /\ PurgeOK(un, stateFile, archive)'
      BY Zenon, <2>1 DEF UInv, AddedIsLate, PurgeOK, First, RemovalOrder
    <2>4. Quiet' => QuietCommand(un)'
      BY Zenon, <2>1 DEF UInv, Quiet, QuietCommand, First, RemovalOrder
    <2>5. Quiet' => QuietFiles'
      <3>1. InstallsAlone => InstallsAlone'
        BY Zenon, <2>1 DEF InstallsAlone
      <3> QED
        BY Zenon, <2>1, <3>1, QuietUnmoved DEF UInv, Quiet, QuietFiles
    <2> QED
      BY Zenon, <1>5, <2>2, <2>3, <2>4, <2>5 DEF UInv
  <1> QED
    BY Zenon, <1>1, <1>2, <1>3, <1>4, <1>5 DEF UninstallNext

\* The inductive invariant of the removal.  A command that runs while nobody else
\* touches the installation has taken the update-check definitions away before the
\* service, the service before the second plan, and every link and launcher before
\* the first generation; a file added to a generation after the second plan is on
\* the list of late changes; and the content prepared for the purge is the content
\* archived (uninstall.py, uninstall_purge.py).
THEOREM UninstallInvariance == UninstallSpec => []UInv
  BY UninstallBegins, UninstallSteps, PTL DEF UninstallSpec

\* Every variable of the removal keeps its type.
THEOREM UninstallTypeCorrect == UninstallSpec => []UninstallTypeOK
  <1>1. UInv => UninstallTypeOK
    <2> SUFFICES ASSUME UInv PROVE UninstallTypeOK
      BY Zenon
    <2>1. FilesOK /\ OthersOK /\ CommandOK(un)
      BY Zenon DEF UInv
    <2>2. \A p \in Profile : profile[p].block \in {"none", "exact", "edited"} /\ profile[p].text \in Nat
      BY Zenon, <2>1 DEF FilesOK, ProfileStates
    <2>3. /\ gen \in [Gen -> [present : BOOLEAN, receipt : {"none", "install", "removal"},
                              entries : SUBSET (Packaged \cup {"added"})]]
          /\ link \in [Link -> Gen \cup {Unlinked}]
          /\ launcher \in [Launcher -> {"absent", "managed", "edited"}]
          /\ checkUnits \subseteq CheckUnit /\ stateFile \in [StateFile -> Nat]
      BY Zenon, <2>1 DEF FilesOK, GenStates, GenerationEntries
    <2>4. /\ un.purge \subseteq StateFile /\ un.todo \subseteq un.plan.remove \cup un.plan.edits
          /\ installing \in Gen \cup {Unlinked} /\ late \subseteq Gen
      BY Zenon, <2>1 DEF CommandOK, OthersOK
    <2>5. {unit, overlapped} \subseteq BOOLEAN
      BY Zenon, <2>1 DEF FilesOK, OthersOK
    <2> QED
      BY Zenon, <2>2, <2>3, <2>4, <2>5 DEF UninstallTypeOK
  <1> QED
    BY <1>1, UninstallInvariance, PTL

\* An uninstall that failed or died between any two of its system calls can be run
\* again: while nobody else changed the managed files, removal_plan accepts what it
\* left, and the update-check definitions never outlive their launcher.
THEOREM UninstallCanResume == UninstallSpec => []UninstallResumes
  <1>1. UInv => UninstallResumes
    <2> SUFFICES ASSUME UInv, ~overlapped, installing = Unlinked, budget.damage = 0
                 PROVE  PlanAccepted /\ (checkUnits # {} => launcher["seckit"] # "absent")
      BY Zenon DEF UninstallResumes
    <2>1. QuietFiles
      BY Zenon DEF UInv, Quiet
    <2>2. Unlinked \notin Gen
      BY Zenon, UninstallAssumption
    <2>3. \A g \in Gen : GenerationAccepted(g)
      BY Zenon, <2>1, <2>2 DEF QuietFiles, AllSealed, SealedOrUnderway
    <2> QED
      BY Zenon, <2>1, <2>3 DEF QuietFiles, LaunchersKnown, UnitKnown, ChecksKnown, PlanAccepted
  <1> QED
    BY <1>1, UninstallInvariance, PTL

\* No step of the removal, or of anyone else, deletes a file somebody added to a
\* generation before the command's last look at it, deletes a state file whose
\* content the requested archive does not hold, or loses the user's own lines in a
\* shell profile (uninstall.py, uninstall_purge.py, uninstall_archive.py).
THEOREM NothingForeignIsLost == UninstallSpec => NothingForeignLost
  <1>1. UInv /\ [UninstallNext]_uninstallVars => [NothingLost]_uninstallVars
    BY Zenon, UninstallSteps
  <1>2. [NothingLost]_uninstallVars =>
          [/\ \A g \in Gen : "added" \in gen[g].entries /\ "added" \notin gen'[g].entries => g \in late
           /\ \A f \in StateFile :
                stateFile[f] # 0 /\ stateFile'[f] = 0 /\ un.archiveTo # "none"
                  => archive[un.archiveTo] # NoArchive /\ archive[un.archiveTo][f] = stateFile[f]
           /\ \A p \in Profile : profile'[p].text >= profile[p].text]_uninstallVars
    BY Zenon DEF NothingLost, AddedKept, PurgedKept, TextKept
  <1> QED
    BY <1>1, <1>2, UninstallInvariance, PTL DEF UninstallSpec, NothingForeignLost

=============================================================================
