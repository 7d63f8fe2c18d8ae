------------------------------ MODULE Capsule -------------------------------
(***************************************************************************)
(* The capsules of one native task: the members of its directory under the *)
(* packet root, the processes that publish to it                           *)
(* (publish_native_tura_task_capsule) and those that load from it          *)
(* (load_native_tura_task_capsule).  No lock is held: one step is one      *)
(* operation on the directory.                                             *)
(*                                                                         *)
(* A capsule's file name is its revision and the digest of its bytes, and  *)
(* the bytes are determined by the caller's input (the context files are   *)
(* bound by digest), so a name stands for an input.  The temporary file of *)
(* a publisher has an inode of its own, and linking gives that inode a     *)
(* second name.  Each publisher publishes once; a retry is another         *)
(* publisher with the same input.                                          *)
(*                                                                         *)
(* A listing is atomic here.  One that is not can only miss a capsule      *)
(* linked while it is read, whose publisher had not returned.  Left out:   *)
(* power failure, files of other programs, and capsules with legacy names. *)
(***************************************************************************)
EXTENDS Naturals

CONSTANTS
  Publishers,  \* calls of publish_native_tura_task_capsule for the task
  Loaders,     \* calls of load_native_tura_task_capsule for the task
  Revisions,   \* mission revisions
  Contents,    \* what else an input holds: mission, route, packet, profile
  Mortal,      \* publishers whose process may be killed
  NoFile       \* no inode

ASSUME CapsuleAssumption ==
  /\ Revisions \subseteq Nat
  /\ Mortal \subseteq Publishers
  /\ Publishers \cap Loaders = {}
  /\ NoFile \notin Publishers

Capsules == [revision : Revisions, content : Contents]

\* Between mkstemp and the finally clause that removes the temporary file.
Writing == {"writing", "written", "linked"}

PublisherState ==
  Writing \cup {"idle", "begun", "listed", "found", "done", "failed", "dead"}

LoaderState == {"idle", "begun", "listed", "loaded", "failed"}

VARIABLES
  input,      \* what each publisher is to publish
  inode,      \* the inode of each capsule: the publisher that linked it
  temps,      \* publishers whose temporary file is in the directory
  written,    \* inodes that are complete, and read-only
  publisher,  \* where each publisher is
  loader,     \* where each loader is
  selected,   \* the capsules a loader took from its listing: none or one
  before      \* history: publishers that returned before each call began

directory == <<inode, temps, written>>
vars == <<input, directory, publisher, loader, selected, before>>

CapsuleTypeOK ==
  /\ input \in [Publishers -> Capsules]
  /\ inode \in [Capsules -> Publishers \cup {NoFile}]
  /\ temps \subseteq Publishers
  /\ written \subseteq Publishers
  /\ publisher \in [Publishers -> PublisherState]
  /\ loader \in [Loaders -> LoaderState]
  /\ selected \in [Loaders -> SUBSET Capsules]
  /\ \A l \in Loaders : \A c, d \in selected[l] : c = d
  /\ before \in [Publishers \cup Loaders -> SUBSET Publishers]

Init ==
  /\ input \in [Publishers -> Capsules]
  /\ inode = [c \in Capsules |-> NoFile]
  /\ temps = {}
  /\ written = {}
  /\ publisher = [q \in Publishers |-> "idle"]
  /\ loader = [l \in Loaders |-> "idle"]
  /\ selected = [l \in Loaders |-> {}]
  /\ before = [x \in Publishers \cup Loaders |-> {}]

-----------------------------------------------------------------------------
(* The directory                                                           *)

Listed == {c \in Capsules : inode[c] # NoFile}

\* A temporary file is a member that _capsule_files refuses.
OnlyCapsules == temps = {}

\* What _load_capsule_path asks of a file: mode 0444, one link, and its bytes.
Readable(c) == inode[c] \in written /\ inode[c] \notin temps

SameRevision(q) == {c \in Listed : c.revision = input[q].revision}

AnyListed == Listed

Newest == {c \in Listed : \A d \in Listed : d.revision <= c.revision}

AmbiguityIgnored == TRUE

\* Every listed revision has one capsule.
Unambiguous == \A c, d \in Listed : c.revision = d.revision => c = d

-----------------------------------------------------------------------------
(* Publishing                                                              *)

Returned == {p \in Publishers : publisher[p] = "done"}

Moves(q, from, to) ==
  publisher[q] = from /\ publisher' = [publisher EXCEPT ![q] = to]

PublisherOnly == UNCHANGED <<input, directory, loader, selected, before>>

RevisionUnused(q) == SameRevision(q) = {}

\* The revision is new, and no older than any that is listed.
InOrder(q) == \A c \in Listed : c.revision < input[q].revision

NotRemoved(q) == UNCHANGED temps

\* temporary.unlink(missing_ok=True)
RemoveTemporary(q) == temps' = temps \ {q}

Begin(q) ==
  /\ Moves(q, "idle", "begun")
  /\ before' = [before EXCEPT ![q] = Returned]
  /\ UNCHANGED <<input, directory, loader, selected>>

ListNew(q) ==
  /\ OnlyCapsules
  /\ InOrder(q)
  /\ Moves(q, "begun", "listed")
  /\ PublisherOnly

ListOwn(q) ==
  /\ OnlyCapsules
  /\ input[q] \in SameRevision(q)
  /\ Moves(q, "begun", "found")
  /\ PublisherOnly

\* The revision has one capsule, and it is the caller's.
ListPublished(q) ==
  /\ OnlyCapsules
  /\ SameRevision(q) = {input[q]}
  /\ Moves(q, "begun", "found")
  /\ PublisherOnly

\* Another member, a conflict, or a stale revision.
Refuse(q) ==
  /\ \/ ~OnlyCapsules
     \/ SameRevision(q) \ {input[q]} # {}
     \/ SameRevision(q) = {} /\ ~InOrder(q)
  /\ Moves(q, "begun", "failed")
  /\ PublisherOnly

MakeTemporary(q) ==
  /\ Moves(q, "listed", "writing")
  /\ temps' = temps \cup {q}
  /\ UNCHANGED <<input, inode, written, loader, selected, before>>

\* write, flush, fsync and chmod.
Write(q) ==
  /\ Moves(q, "writing", "written")
  /\ written' = written \cup {q}
  /\ UNCHANGED <<input, inode, temps, loader, selected, before>>

Overwrites(q) == TRUE

\* The link is made only if there is no file of that name.
TargetFree(q) == inode[input[q]] = NoFile

Link(q) ==
  /\ TargetFree(q)
  /\ Moves(q, "written", "linked")
  /\ inode' = [inode EXCEPT ![input[q]] = q]
  /\ UNCHANGED <<input, temps, written, loader, selected, before>>

\* FileExistsError: another publisher has linked the same capsule.
LinkExists(q) ==
  /\ ~TargetFree(q)
  /\ Moves(q, "written", "found")
  /\ RemoveTemporary(q)
  /\ UNCHANGED <<input, inode, written, loader, selected, before>>

ReturnExisting(q) ==
  /\ Moves(q, "found", "done")
  /\ PublisherOnly

\* The capsule that is there is returned only if it can be loaded.
LoadExisting(q) ==
  /\ Moves(q, "found", IF Readable(input[q]) THEN "done" ELSE "failed")
  /\ PublisherOnly

Return(q) ==
  /\ Moves(q, "linked", "done")
  /\ RemoveTemporary(q)
  /\ UNCHANGED <<input, inode, written, loader, selected, before>>

\* Reading the context, the write, the link or an fsync raises.
Raise(q) ==
  /\ \E from \in Writing \cup {"listed", "found"} : Moves(q, from, "failed")
  /\ RemoveTemporary(q)
  /\ UNCHANGED <<input, inode, written, loader, selected, before>>

\* The process is killed with its temporary file in the directory.
Kill(q) ==
  /\ q \in Mortal
  /\ \E from \in Writing : Moves(q, from, "dead")
  /\ PublisherOnly

-----------------------------------------------------------------------------
(* Loading                                                                 *)

Advances(l, from, to) ==
  loader[l] = from /\ loader' = [loader EXCEPT ![l] = to]

BeginLoad(l) ==
  /\ Advances(l, "idle", "begun")
  /\ before' = [before EXCEPT ![l] = Returned]
  /\ UNCHANGED <<input, directory, publisher, selected>>

Select(l) ==
  /\ OnlyCapsules
  /\ Listed # {}
  /\ Unambiguous
  /\ Advances(l, "begun", "listed")
  /\ selected' = [selected EXCEPT ![l] = Newest]
  /\ UNCHANGED <<input, directory, publisher, before>>

LoadRefused(l) ==
  /\ \/ ~OnlyCapsules
     \/ Listed = {}
     \/ ~Unambiguous
  /\ Advances(l, "begun", "failed")
  /\ UNCHANGED <<input, directory, publisher, selected, before>>

ReadSelected(l) ==
  /\ Advances(l, "listed",
       IF \A c \in selected[l] : Readable(c) THEN "loaded" ELSE "failed")
  /\ UNCHANGED <<input, directory, publisher, selected, before>>

-----------------------------------------------------------------------------
PublisherStep(q) ==
  \/ Begin(q) \/ ListNew(q) \/ ListPublished(q) \/ Refuse(q)
  \/ MakeTemporary(q) \/ Write(q) \/ Link(q) \/ LinkExists(q)
  \/ LoadExisting(q) \/ Return(q) \/ Raise(q) \/ Kill(q)

LoaderStep(l) ==
  BeginLoad(l) \/ Select(l) \/ LoadRefused(l) \/ ReadSelected(l)

Next ==
  \/ \E q \in Publishers : PublisherStep(q)
  \/ \E l \in Loaders : LoaderStep(l)

Spec == Init /\ [][Next]_vars

-----------------------------------------------------------------------------
(* Properties                                                              *)

\* A publish that returned has put its capsule where it can be loaded, and no
\* crash or failure of another publisher takes that back: the link count that
\* _load_capsule_path checks is what makes a racing publisher wait its turn.
PublishedReadable ==
  \A q \in Publishers : publisher[q] = "done" => Readable(input[q])

\* A capsule linked by a call that began after another one returned has a
\* higher revision than that one's: a follow-up never takes an old revision or
\* replaces one (TASK_PACKET_REVISION_STALE, TASK_PACKET_REVISION_CONFLICT).
PublishedInOrder ==
  \A q \in Publishers : inode[input[q]] = q =>
    \A p \in before[q] : input[p].revision < input[q].revision

\* A load that began after a publish returned gives its capsule or one of a
\* higher revision, never an older one and never another input of the same
\* revision.
LoadSeesPublished ==
  \A l \in Loaders : loader[l] = "loaded" =>
    \A c \in selected[l], p \in before[l] :
      input[p].revision < c.revision \/ input[p] = c

\* Publishers that do not overlap are refused or agree: who returned after
\* another had returned before it began, with the same revision, published
\* the same input, also when yet another publisher raced with either
\* (TASK_PACKET_REVISION_CONFLICT).
SequentialPublishersAgree ==
  \A q \in Returned : \A p \in before[q] :
    input[p].revision = input[q].revision => input[p] = input[q]

\* Only a publisher that is still writing, or was killed while it was, leaves
\* a temporary file: the directory of publishers that all returned or raised
\* is one that can be listed.
NoStrayTemporaries ==
  \A q \in temps : publisher[q] \in Writing \cup {"dead"}

\* A capsule is immutable: its name keeps the file it was first linked to.
CapsulesImmutable ==
  [][\A c \in Listed : inode'[c] = inode[c]]_vars

\* A revision of a task has one input: of two publishers that differ, one is
\* refused, also when they race (native_tura.py:918).
OneInputPerRevision ==
  \A p, q \in Returned :
    input[p].revision = input[q].revision => input[p] = input[q]

-----------------------------------------------------------------------------
(* The inductive invariants behind the properties                          *)

\* Where an inode comes from, and what has been done to it.
DirectoryInv ==
  /\ NoStrayTemporaries
  /\ PublishedReadable
  /\ \A q \in Publishers :
       /\ publisher[q] \in {"written", "linked"} => q \in written
       /\ publisher[q] = "linked" => inode[input[q]] = q
       /\ publisher[q] = "found" => inode[input[q]] # NoFile
  /\ \A c \in Listed :
       /\ c = input[inode[c]]
       /\ inode[c] \in written
       /\ publisher[inode[c]] \in {"linked", "done", "failed", "dead"}

\* What a call knows about the publishers that returned before it.
OrderInv ==
  /\ \A x \in Publishers \cup Loaders : before[x] \subseteq Returned
  /\ PublishedInOrder
  /\ \A q \in Publishers : publisher[q] \in {"listed", "writing", "written"} =>
       \A p \in before[q] : input[p].revision < input[q].revision
  /\ \A q \in Publishers : publisher[q] \in {"found", "linked", "done"} =>
       \A p \in before[q] :
         input[p].revision = input[q].revision => input[p] = input[q]
  /\ \A l \in Loaders : loader[l] \in {"listed", "loaded"} =>
       \A c \in selected[l], p \in before[l] :
         input[p].revision < c.revision \/ input[p] = c

=============================================================================
