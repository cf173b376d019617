------------------------------- MODULE Vault --------------------------------
(***************************************************************************)
(* A node's folder and its Review snapshots (vault.py), as requesting review   *)
(* writes them (request_review) and an exchange carries them (_vault_files,    *)
(* _check_snapshot).  A snapshot freezes every input of the proof: the folder    *)
(* is scanned, then read file by file while others edit it, then the modes are   *)
(* read; only the writing is under the write lock.  A stored snapshot is known    *)
(* by a digest recomputed from its files, so an edit, a lost file or a lost        *)
(* executable bit shows, here and where a bundle takes it.  SHA-256 is taken as     *)
(* injective: a digest is the value it is of.                                      *)
(***************************************************************************)
EXTENDS Naturals, Sequences, FiniteSets

CONSTANTS
  Processes,    \* those that request review
  Versions,     \* 1 .. N: a bound on the versions
  MaxEdits,     \* a bound on the edits of the folder
  MaxDamage     \* a bound on what befalls a stored snapshot

VARIABLES
  folder,    \* path -> what stands there: a file's contents, "none" or "link"
  exec,      \* the paths whose file is executable
  medium,    \* the node's Medium
  built,     \* the last build: none, or whether its log has errors
  newer,     \* the paths edited since that build
  disk,      \* version -> its snapshot folder
  pdf,       \* version -> whether a PDF is archived beside it
  rows,      \* version -> its row: the digest recorded, and what was read
  req,       \* process -> its request
  lock,      \* who holds the write lock
  edits, damage

vars == <<folder, exec, medium, built, newer, disk, pdf, rows, req, lock, edits, damage>>

\* Path order: the scan's, then the shared preamble.  "env" is an allowlisted hidden
\* file (.python-version), "secret" an .env, "work" the file the work starts from.
Order == <<"secret", "env", "ideas", "work", "out", "preamble">>
Paths == {Order[i] : i \in DOMAIN Order}
Contents == {"first", "second"}

NoOne == "nobody"
NoBuild == "none"
NoFolder == [files |-> <<>>, names |-> {}, marked |-> {}, runs |-> {}, state |-> "absent"]
\* What no files digest to: a snapshot that is gone, unreadable or marked unverifiable.
Unreadable == [files |-> <<>>, executable |-> {"unreadable"}]
NoRow == [sha |-> Unreadable, read |-> <<>>, exec |-> {}]
Idle == [at |-> "idle", todo |-> <<>>, got |-> <<>>, exec |-> {}, computation |-> FALSE, version |-> 0]
-----------------------------------------------------------------------------
(* What a snapshot freezes.                                                *)

IsSecret(path) == path = "secret"
FrozenFile(path, computation) == ~IsSecret(path) /\ (path = "env" => computation)

\* What a path may hold.  A link is refused; the shared preamble's is followed, so
\* that "preamble" holds what a reader finds there, link or not.
Holds(path) == Contents \cup {"none"} \cup (IF path = "preamble" THEN {} ELSE {"link"})

\* The shared preamble is an input of a LaTeX document only.
Kept(computation) == {p \in Paths \ {"preamble"} : FrozenFile(p, computation)}
Scanned(computation) ==
  {p \in Kept(computation) : folder[p] \in Contents}
    \cup (IF ~computation /\ folder["preamble"] \in Contents THEN {"preamble"} ELSE {})
Links(computation) == {p \in Kept(computation) : folder[p] = "link"}

Role(path) == CASE path = "out" -> "output" [] path = "ideas" -> "summary" [] OTHER -> "input"

Digest(files, executable) == [files |-> files, executable |-> executable]
InputsOf(files) == {p \in DOMAIN files : Role(p) = "input"}
InputsDigest(files, executable) ==
  Digest([p \in InputsOf(files) |-> files[p]], executable \cap InputsOf(files))

\* The digest of a stored snapshot, by its manifest's names and the files there now.
FolderDigest(s) ==
  IF s.state = "whole" /\ s.names \subseteq DOMAIN s.files /\ s.marked \subseteq s.runs
  THEN Digest([p \in s.names |-> s.files[p]], s.marked) ELSE Unreadable
FrozenInputs(s) ==
  IF s.state = "whole" /\ {p \in s.names : Role(p) = "input"} \subseteq DOMAIN s.files
  THEN InputsDigest([p \in s.names \cap DOMAIN s.files |-> s.files[p]], s.marked) ELSE Unreadable

WorkingFiles(computation) == [p \in Scanned(computation) |-> folder[p]]
WorkingExec(computation) == IF computation THEN exec \cap Scanned(TRUE) ELSE {}
WorkingInputs(computation) == InputsDigest(WorkingFiles(computation), WorkingExec(computation))

\* A build is current when no input that goes into the PDF was edited after it.
BuildIsCurrent == built # NoBuild /\ (newer \cap Scanned(FALSE)) \ {"ideas"} = {}
-----------------------------------------------------------------------------
(* The folder is edited freely, by people and agents, and compiled.            *)

Edit(p) ==
  /\ edits < MaxEdits /\ edits' = edits + 1
  /\ \E c \in Holds(p) \ {folder[p]} : folder' = [folder EXCEPT ![p] = c]
  /\ newer' = newer \cup {p}
  /\ UNCHANGED <<exec, medium, built, disk, pdf, rows, req, lock, damage>>

Chmod ==
  /\ edits < MaxEdits /\ edits' = edits + 1
  /\ exec' = IF "work" \in exec THEN exec \ {"work"} ELSE exec \cup {"work"}
  /\ UNCHANGED <<folder, medium, built, newer, disk, pdf, rows, req, lock, damage>>

SetMedium ==
  /\ edits < MaxEdits /\ edits' = edits + 1
  /\ medium' = IF medium = "latex" THEN "computation" ELSE "latex"
  /\ UNCHANGED <<folder, exec, built, newer, disk, pdf, rows, req, lock, damage>>

Compile ==
  /\ medium = "latex" /\ folder["work"] \in Contents
  /\ built' \in {"clean", "errors"} /\ newer' = {}
  /\ UNCHANGED <<folder, exec, medium, disk, pdf, rows, req, lock, edits, damage>>
-----------------------------------------------------------------------------
(* Requesting review: read, then write under the lock.                     *)

RequestUnchanged == UNCHANGED <<folder, exec, medium, built, newer, edits, damage>>
Refused(p) == req' = [req EXCEPT ![p] = Idle]

Present(computation) == SelectSeq(Order, LAMBDA p : p \in Scanned(computation))

\* The entry stands, and no link is among what would be read.
Begins(p) ==
  /\ req[p] = Idle /\ folder["work"] \in Contents
  /\ LET computation == medium = "computation" IN
       /\ Links(computation) = {}
       /\ req' = [req EXCEPT ![p] = [Idle EXCEPT !.at = "reads", !.todo = Present(computation),
                                                  !.computation = computation]]
  /\ RequestUnchanged /\ UNCHANGED <<disk, pdf, rows, lock>>

\* A file is read where its path leads when it is read; one gone is an error.
Reads(p) ==
  /\ req[p].at = "reads" /\ req[p].todo # <<>>
  /\ LET path == Head(req[p].todo) IN
       IF folder[path] = "none" THEN Refused(p)
       ELSE req' = [req EXCEPT ![p].todo = Tail(@),
                               ![p].got = [q \in DOMAIN @ \cup {path} |-> IF q = path THEN folder[q] ELSE @[q]]]
  /\ RequestUnchanged /\ UNCHANGED <<disk, pdf, rows, lock>>

\* The executable bits, after every file; then the summary the review starts from.
ReadsModes(p) ==
  /\ req[p].at = "reads" /\ req[p].todo = <<>>
  /\ LET r == req[p] IN
       IF (r.computation /\ \E q \in DOMAIN r.got : folder[q] = "none") \/ "ideas" \notin DOMAIN r.got
       THEN Refused(p)
       ELSE req' = [req EXCEPT ![p].at = "read",
                               ![p].exec = IF r.computation THEN exec \cap DOMAIN r.got ELSE {}]
  /\ RequestUnchanged /\ UNCHANGED <<disk, pdf, rows, lock>>

Rows == {v \in Versions : rows[v] # NoRow}
OnDisk == {v \in Versions : disk[v] # NoFolder \/ pdf[v]}
Newest == CHOOSE v \in Rows : \A w \in Rows : w <= v

\* Refused when nothing is new: the newest row's digest is this one's, and its
\* snapshot still reads (else it is a re-snapshot after loss).
Unchanged(sha) == Rows # {} /\ rows[Newest].sha = sha /\ FolderDigest(disk[Newest]) # Unreadable

\* (A plausible error: the newest version again.)
NewestAgain == IF Rows = {} THEN 1 ELSE Newest

\* Past every version indexed or on disk.
NextVersion ==
  LET taken == Rows \cup OnDisk IN IF taken = {} THEN 1 ELSE 1 + CHOOSE v \in taken : \A w \in taken : w <= v

Locks(p) ==
  /\ req[p].at = "read" /\ lock = NoOne
  /\ IF Unchanged(Digest(req[p].got, req[p].exec)) THEN Refused(p) /\ UNCHANGED lock
     ELSE /\ NextVersion \in Versions
          /\ lock' = p
          /\ req' = [req EXCEPT ![p].at = "files", ![p].version = NextVersion]
  /\ RequestUnchanged /\ UNCHANGED <<disk, pdf, rows>>

WritesFiles(p) ==
  /\ req[p].at = "files"
  /\ disk' = [disk EXCEPT ![req[p].version] =
                [files |-> req[p].got, names |-> {}, marked |-> {}, runs |-> req[p].exec, state |-> "unlisted"]]
  /\ req' = [req EXCEPT ![p].at = "manifest"]
  /\ RequestUnchanged /\ UNCHANGED <<pdf, rows, lock>>

WritesManifest(p) ==
  /\ req[p].at = "manifest"
  /\ disk' = [disk EXCEPT ![req[p].version].names = DOMAIN req[p].got,
                          ![req[p].version].marked = req[p].exec, ![req[p].version].state = "whole"]
  /\ req' = [req EXCEPT ![p].at = "archive"]
  /\ RequestUnchanged /\ UNCHANGED <<pdf, rows, lock>>

\* The build's PDF, when it is current and its log has no errors.
Archives(p) ==
  /\ req[p].at = "archive"
  /\ pdf' = [pdf EXCEPT ![req[p].version] = BuildIsCurrent /\ built = "clean"]
  /\ req' = [req EXCEPT ![p].at = "commit"]
  /\ RequestUnchanged /\ UNCHANGED <<disk, rows, lock>>

Commits(p) ==
  /\ req[p].at = "commit"
  /\ rows' = [rows EXCEPT ![req[p].version] =
                [sha |-> Digest(req[p].got, req[p].exec), read |-> req[p].got, exec |-> req[p].exec]]
  /\ lock' = NoOne /\ Refused(p)
  /\ RequestUnchanged /\ UNCHANGED <<disk, pdf>>

\* The transaction fails: what this request wrote goes, before its lock does.
RollsBack(p) ==
  /\ lock = p
  /\ disk' = [disk EXCEPT ![req[p].version] = NoFolder] /\ pdf' = [pdf EXCEPT ![req[p].version] = FALSE]
  /\ lock' = NoOne /\ Refused(p)
  /\ RequestUnchanged /\ UNCHANGED rows

\* The process dies: what it wrote stays, an orphan.
Dies(p) ==
  /\ lock = p /\ lock' = NoOne /\ Refused(p)
  /\ RequestUnchanged /\ UNCHANGED <<disk, pdf, rows>>
-----------------------------------------------------------------------------
(* What befalls a stored snapshot: an edit, a lost file, a lost mode, all of it. *)

Damaged(s) ==
  {NoFolder} \cup {[s EXCEPT !.files[p] = "edited"] : p \in DOMAIN s.files}
    \cup {[s EXCEPT !.files = [q \in DOMAIN s.files \ {p} |-> s.files[q]]] : p \in DOMAIN s.files}
    \cup {[s EXCEPT !.runs = @ \ {p}] : p \in s.runs}

Damage(v) ==
  /\ damage < MaxDamage /\ damage' = damage + 1 /\ disk[v] # NoFolder /\ v \in Rows
  /\ \E s \in Damaged(disk[v]) \ {disk[v]} : disk' = [disk EXCEPT ![v] = s]
  /\ UNCHANGED <<folder, exec, medium, built, newer, pdf, rows, req, lock, edits>>
-----------------------------------------------------------------------------
(* What an exchange carries of a snapshot, and what arrives.                    *)

\* Filtered as a snapshot is, by the path it froze; whatever Medium the node had.
Carried(s) == {p \in DOMAIN s.files : FrozenFile(p, TRUE)}
Withheld(s) == s.names \ Carried(s)

\* A snapshot exported without some of its files is marked so in its manifest,
\* which keeps no trace of them.
Exported(s) ==
  [s EXCEPT !.files = [p \in Carried(s) |-> s.files[p]],
            !.names = @ \ Withheld(s), !.marked = @ \ Withheld(s), !.runs = s.marked \ Withheld(s),
            !.state = IF @ = "whole" /\ Withheld(s) # {} THEN "unverifiable" ELSE @]

\* The digest with the bundle's flags, which must be the manifest's either way.
CarriedDigest(s, flags) ==
  IF s.marked = flags THEN FolderDigest([s EXCEPT !.runs = flags]) ELSE Unreadable

NotImported == "refused"
Arrives(s, sha, flags, withheld) ==
  LET digest == CarriedDigest(s, flags)
      plain == FolderDigest([s EXCEPT !.runs = s.marked])
  IN IF digest = Unreadable /\ plain = sha THEN [s EXCEPT !.runs = flags, !.state = "unverifiable"]
     ELSE IF digest = sha \/ withheld THEN [s EXCEPT !.runs = flags]
     ELSE [s EXCEPT !.state = NotImported]

\* A snapshot of a node's version, as it stands where a bundle is imported; the
\* flags are the bundle's, which another program may have written.
Elsewhere(v, flags) ==
  Arrives(Exported(disk[v]), rows[v].sha, flags, Withheld(disk[v]) # {})
-----------------------------------------------------------------------------
Init ==
  /\ folder \in [Paths -> {"first", "none"}]
  /\ folder["work"] = "first" /\ folder["ideas"] = "first" /\ folder["out"] = "first"
  /\ folder["preamble"] = "first" /\ folder["env"] = folder["secret"]
  /\ medium \in {"latex", "computation"} /\ exec = {"work"}
  /\ built = NoBuild /\ newer = {} /\ pdf = [v \in Versions |-> FALSE]
  /\ req = [p \in Processes |-> Idle] /\ lock = NoOne /\ edits = 0 /\ damage = 0
  \* No version, or a first one, which an older rule may have frozen a secret in.
  /\ \E old \in {{}, {"work", "ideas", "secret"}} :
       LET files == [p \in old |-> "first"] IN
       /\ disk = [v \in Versions |-> IF v = 1 /\ old # {}
                    THEN [files |-> files, names |-> old, marked |-> {"work"}, runs |-> {"work"}, state |-> "whole"]
                    ELSE NoFolder]
       /\ rows = [v \in Versions |-> IF v = 1 /\ old # {}
                    THEN [sha |-> Digest(files, {"work"}), read |-> files, exec |-> {"work"}] ELSE NoRow]

Next ==
  \/ \E p \in Paths : Edit(p)
  \/ Chmod \/ SetMedium \/ Compile
  \/ \E v \in Versions : Damage(v)
  \/ \E p \in Processes :
       \/ Begins(p) \/ Reads(p) \/ ReadsModes(p) \/ Locks(p) \/ WritesFiles(p) \/ WritesManifest(p)
       \/ Archives(p) \/ Commits(p) \/ RollsBack(p) \/ Dies(p)

Spec == Init /\ [][Next]_vars
-----------------------------------------------------------------------------
(* Properties.                                                             *)

TypeOK ==
  /\ folder \in [Paths -> Contents \cup {"none", "link"}] /\ exec \subseteq Paths
  /\ medium \in {"latex", "computation"} /\ newer \subseteq Paths
  /\ DOMAIN disk = Versions /\ pdf \in [Versions -> BOOLEAN] /\ DOMAIN rows = Versions
  /\ lock \in Processes \cup {NoOne}

\* The digest a decision is bound to is of what the request read, here and
\* wherever a bundle takes the snapshot, whatever befell its files and flags and
\* whatever the bundle left out (snapshot_folder_digest, _check_snapshot); and no
\* withheld file leaves (ADR-0015).
CountsAsFrozen ==
  \A v \in Rows :
    LET asRead(s) == s.state = "whole" /\ [p \in s.names |-> s.files[p]] = rows[v].read
                       /\ rows[v].exec \subseteq s.runs
    IN /\ FolderDigest(disk[v]) = rows[v].sha => asRead(disk[v])
       /\ \A flags \in {{}, {"work"}, disk[v].marked} :
            LET there == Elsewhere(v, flags) IN
            /\ there.state # NotImported /\ FolderDigest(there) = rows[v].sha =>
                 asRead(there) /\ flags = rows[v].exec
            /\ \A p \in DOMAIN there.files \cup there.names : ~IsSecret(p)

\* A version that has its row keeps its folder and its PDF through every request,
\* rollback and crash: what another request leaves or removes is its own (request_review,
\* "a rollback never removes a file this request didn't write").
VersionsStand ==
  [][\A v \in Rows :
       /\ rows'[v] = rows[v] /\ pdf'[v] = pdf[v]
       /\ damage' = damage => disk'[v] = disk[v]]_vars

\* A Run counts on a snapshot exactly when no input changed since it was frozen:
\* outputs and the summary don't count, an executable bit does (working_inputs_digest).
InputsTell ==
  \A v \in Rows :
    FolderDigest(disk[v]) = rows[v].sha =>
      LET now == WorkingFiles(TRUE) IN
      WorkingInputs(TRUE) = FrozenInputs(disk[v]) <=>
        /\ InputsOf(now) = InputsOf(rows[v].read)
        /\ \A p \in InputsOf(now) : now[p] = rows[v].read[p] /\ (p \in exec <=> p \in rows[v].exec)
=============================================================================
