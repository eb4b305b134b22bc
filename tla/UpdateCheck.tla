----------------------------- MODULE UpdateCheck -----------------------------
(***************************************************************************)
(* Update checks and upgrades (cli/update_check.py, cli/commands/          *)
(* upgrade.py).  The daily timer, `upgrade --check' and `upgrade' are      *)
(* separate processes that share one cache file and one installation and   *)
(* take no lock.  Each knows only the version it was started from.         *)
(*                                                                         *)
(* GitHub and install.sh are outside the package: a repository is the      *)
(* sequence of its releases, newest publication first, whose installer     *)
(* asset may be uploaded again under the same tag, and install.sh sets the *)
(* installed version.                                                      *)
(***************************************************************************)
EXTENDS Naturals, Sequences, FiniteSets

CONSTANTS
  UpdateCommand,    \* processes
  Upgrader,         \* those that run `upgrade'; the others, like the timer, only check
  Repository,       \* repositories a process may be pointed at
  Publications,     \* Publications[r]: the versions r publishes, in that order
  FirstVersion,     \* what is installed at the beginning
  MaxUploads        \* bound on renewed uploads of an installer

\* A version is a number and a prerelease family; "final" is no prerelease.
Versions == [number : Nat, stage : STRING]

ASSUME UpdateAssumption ==
  /\ FirstVersion \in Versions
  /\ \A r \in Repository : Publications[r] \in Seq(Versions)

VARIABLES
  installed,    \* the version install.sh last put in place, with its installer's digest
  receiptRepo,  \* the repository the install receipt names
  published,    \* published[r]: how many versions r has published
  upload,       \* how often the installer assets were replaced
  cacheFile,    \* update-check.json
  cacheFresh,   \* is the cache younger than CHECK_TTL_SECONDS
  upd,          \* upd[p]: the command process p is running
  temporaries   \* installers downloaded and not yet unlinked, by process

updateVars == <<installed, receiptRepo, published, upload, cacheFile, cacheFresh, upd, temporaries>>

StageRank(stage) == IF stage = "rc" THEN 2 ELSE 3
VersionKey(v) == v.number * 4 + StageRank(v.stage)
VersionStage(v) == v.stage
ChannelOf(v) == IF v.stage = "final" THEN "release" ELSE "prerelease"
AllVersions == {FirstVersion} \cup UNION {{Publications[r][i] : i \in DOMAIN Publications[r]} : r \in Repository}

NoVersion == [number |-> 0, stage |-> "none"]
NoResult == [status |-> "none", current |-> NoVersion, latest |-> NoVersion, digest |-> 0,
             repository |-> "none"]
NoUpdate == [pc |-> "idle", kind |-> "check", current |-> NoVersion,
             repo |-> "none", explicit |-> FALSE, result |-> NoResult]

\* The digest GitHub announces for the installer of a version.
DigestOf(v) == <<VersionKey(v), upload>>

UpdateTypeOK ==
  /\ installed.version \in AllVersions
  /\ receiptRepo \in Repository
  /\ \A r \in Repository : published[r] \in 0 .. Len(Publications[r])
  /\ cacheFresh \in BOOLEAN
  /\ \A p \in UpdateCommand : upd[p].pc \in {"idle", "fetch", "write", "done", "download", "install"}
  /\ temporaries \subseteq UpdateCommand
  /\ cacheFile # NoResult => cacheFile.current \in AllVersions /\ cacheFile.repository \in Repository

UpdateInit ==
  /\ installed = [version |-> FirstVersion, digest |-> <<VersionKey(FirstVersion), 0>>]
  /\ receiptRepo \in Repository
  /\ published = [r \in Repository |-> 0]
  /\ upload = 0
  /\ cacheFile = NoResult /\ cacheFresh = FALSE
  /\ upd = [p \in UpdateCommand |-> NoUpdate]
  /\ temporaries = {}

----------------------------------------------------------------------------

\* The releases of the listing, which shows the newest publication first.
Listed(r) == 1 .. published[r]

\* _latest_release: the first listed release of the channel and of the installed
\* version's family, not the greatest one; there may be none.
LatestRelease(r, current) ==
  LET fits(i) == /\ VersionStage(Publications[r][i]) = VersionStage(current)
                 /\ ChannelOf(Publications[r][i]) = ChannelOf(current)
  IN  {Publications[r][i] : i \in {i \in Listed(r) : fits(i) /\ \A j \in Listed(r) : j > i => ~fits(j)}}

\* The cache answers a check when it is fresh and about the same repository,
\* channel and installed version; a cached candidate must be of its family.
CacheAnswers(p, current, repo) ==
  /\ cacheFile # NoResult /\ cacheFresh
  /\ cacheFile.repository = repo /\ cacheFile.current = current
  /\ cacheFile.status \in {"available", "current"}
       => VersionStage(cacheFile.latest) = VersionStage(current)

\* What a check concludes from the listing.
Concluded(p, v) ==
  [status |-> IF VersionKey(v) > VersionKey(upd[p].current) THEN "available" ELSE "current",
   current |-> upd[p].current, latest |-> v, digest |-> DigestOf(v), repository |-> upd[p].repo]

Unavailable(p) ==
  [status |-> "unavailable", current |-> upd[p].current, latest |-> NoVersion, digest |-> 0,
   repository |-> upd[p].repo]

\* _release_context: the environment's repository, otherwise the receipt's.
ReleaseContext(override) == IF override \in Repository THEN override ELSE receiptRepo

\* A check of the running version, and how far it has come.
Checking(pc, kind, repo, result) ==
  [pc |-> pc, kind |-> kind, current |-> installed.version, repo |-> repo, explicit |-> FALSE,
   result |-> result]

\* check_for_update up to the network: `upgrade' always refreshes.
CheckStarts(p, kind, refresh, override) ==
  /\ upd[p].pc = "idle"
  /\ kind = "upgrade" => refresh /\ p \in Upgrader
  /\ LET repo == ReleaseContext(override)
     IN  upd' = [upd EXCEPT ![p] =
                   IF ~refresh /\ CacheAnswers(p, installed.version, repo)
                   THEN Checking("done", kind, repo, cacheFile)
                   ELSE Checking("fetch", kind, repo, NoResult)]
  /\ UNCHANGED <<installed, receiptRepo, published, upload, cacheFile, cacheFresh, temporaries>>

\* The listing is fetched, or the request fails or lists nothing that fits.
Fetches(p) ==
  /\ upd[p].pc = "fetch"
  /\ \E result \in {Unavailable(p)} \cup
                    {Concluded(p, v) : v \in LatestRelease(upd[p].repo, upd[p].current)} :
       upd' = [upd EXCEPT ![p] = [[@ EXCEPT !.pc = "write"] EXCEPT !.result = result]]
  /\ UNCHANGED <<installed, receiptRepo, published, upload, cacheFile, cacheFresh, temporaries>>

\* _write_cache replaces the file atomically; failing to is not an error.
WritesCache(p) ==
  /\ upd[p].pc = "write"
  /\ \/ cacheFile' = upd[p].result /\ cacheFresh' = TRUE
     \/ UNCHANGED <<cacheFile, cacheFresh>>
  /\ upd' = [upd EXCEPT ![p].pc = "done"]
  /\ UNCHANGED <<installed, receiptRepo, published, upload, temporaries>>

\* `upgrade --check' prints the result; `upgrade' stops unless one is available.
CheckReturns(p) ==
  /\ upd[p].pc = "done"
  /\ upd' = [upd EXCEPT ![p] = IF upd[p].kind = "upgrade" /\ upd[p].result.status = "available"
                               THEN [upd[p] EXCEPT !.pc = "download"] ELSE NoUpdate]
  /\ UNCHANGED <<installed, receiptRepo, published, upload, cacheFile, cacheFresh, temporaries>>

\* Mutant of RefAccepted: the requested release is not compared
AnyRef(v) == TRUE

\* cmd_upgrade refuses an explicit reference below the running version.
RefAccepted(v) == VersionKey(v) >= VersionKey(installed.version)

\* `upgrade --ref': the asset of that tag is resolved, without a check.
UpgradeTo(p, v) ==
  /\ p \in Upgrader /\ upd[p].pc = "idle" /\ RefAccepted(v)
  /\ \E r \in Repository : \E i \in 1 .. published[r] : Publications[r][i] = v
  /\ upd' = [upd EXCEPT ![p] =
       [pc |-> "download", kind |-> "upgrade", current |-> installed.version, repo |-> "none",
        explicit |-> TRUE,
        result |-> [status |-> "none", current |-> NoVersion, latest |-> v, digest |-> DigestOf(v),
                    repository |-> "none"]]]
  /\ UNCHANGED <<installed, receiptRepo, published, upload, cacheFile, cacheFresh, temporaries>>

DigestMatches(p) == DigestOf(upd[p].result.latest) = upd[p].result.digest

\* The user confirms or not; download_release_installer keeps the file only when
\* its bytes have the announced digest and bash accepts them.
Downloads(p) ==
  /\ upd[p].pc = "download"
  /\ \E kept \in {DigestMatches(p), FALSE} :
       IF kept
       THEN /\ temporaries' = temporaries \cup {p}
            /\ upd' = [upd EXCEPT ![p] = [[@ EXCEPT !.pc = "install"]
                           EXCEPT !.result = [upd[p].result EXCEPT !.digest = DigestOf(upd[p].result.latest)]]]
       ELSE /\ upd' = [upd EXCEPT ![p] = NoUpdate]
            /\ UNCHANGED temporaries
  /\ UNCHANGED <<installed, receiptRepo, published, upload, cacheFile, cacheFresh>>

\* cmd_install runs the verified installer, which succeeds or fails; the download
\* is unlinked in either case.
RunsInstaller(p) ==
  /\ upd[p].pc = "install"
  /\ \/ installed' = [version |-> upd[p].result.latest, digest |-> upd[p].result.digest]
     \/ UNCHANGED installed
  /\ temporaries' = temporaries \ {p}
  /\ upd' = [upd EXCEPT ![p] = NoUpdate]
  /\ UNCHANGED <<receiptRepo, published, upload, cacheFile, cacheFresh>>

UpdateStep(p) ==
  \/ \E kind \in {"check", "upgrade"}, refresh \in BOOLEAN, o \in Repository \cup {"unset"} :
       CheckStarts(p, kind, refresh, o)
  \/ Fetches(p) \/ WritesCache(p) \/ CheckReturns(p)
  \/ \E v \in AllVersions : UpgradeTo(p, v)
  \/ Downloads(p) \/ RunsInstaller(p)

\* Outside: a release, a renewed upload, a day.
Publishes(r) ==
  /\ published[r] < Len(Publications[r])
  /\ published' = [published EXCEPT ![r] = @ + 1]
  /\ UNCHANGED <<installed, receiptRepo, upload, cacheFile, cacheFresh, upd, temporaries>>

Uploads ==
  /\ upload < MaxUploads
  /\ upload' = upload + 1
  /\ UNCHANGED <<installed, receiptRepo, published, cacheFile, cacheFresh, upd, temporaries>>

CacheExpires ==
  /\ cacheFresh
  /\ cacheFresh' = FALSE
  /\ UNCHANGED <<installed, receiptRepo, published, upload, cacheFile, upd, temporaries>>

UpdateNext ==
  \/ \E p \in UpdateCommand : UpdateStep(p)
  \/ \E r \in Repository : Publishes(r)
  \/ Uploads \/ CacheExpires

UpdateSpec == UpdateInit /\ [][UpdateNext]_updateVars

----------------------------------------------------------------------------

\* An upgrade runs what was announced and goes forward.  Without an explicit
\* reference it stays in the prerelease family of the version it was started from,
\* and no upgrade goes below that version; an asset replaced between the check and
\* the download is not run, since its digest is the one announced with the release.
UpgradeGoesForward ==
  [][\A p \in UpdateCommand :
       /\ upd[p].pc = "install" /\ installed' # installed /\ upd'[p] # upd[p]
            => /\ VersionKey(installed'.version) >= VersionKey(upd[p].current)
               /\ upd[p].explicit \/ VersionStage(installed'.version) = VersionStage(upd[p].current)
       /\ upd[p].pc = "download" /\ upd'[p].pc = "install"
            => upd'[p].result = upd[p].result]_updateVars

==============================================================================
