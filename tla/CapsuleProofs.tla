--------------------------- MODULE CapsuleProofs ----------------------------
(***************************************************************************)
(* Theorems about Capsule, for any number of publishers and loaders, any   *)
(* revisions and contents, and any publishers that may be killed.          *)
(***************************************************************************)
EXTENDS Capsule, TLAPS

(* The newest of the listed capsules is one, where revisions are distinct. *)

LEMMA NewestIsOne ==
  ASSUME CapsuleTypeOK, Unambiguous
  PROVE  \A c, d \in Newest : c = d
<1> SUFFICES ASSUME NEW c \in Newest, NEW d \in Newest
             PROVE  c = d
  OBVIOUS
<1>1. c \in Listed /\ d \in Listed
  BY DEF Newest
<1>2. c.revision \in Nat /\ d.revision \in Nat
  BY <1>1, CapsuleAssumption DEF Listed, Capsules
<1>3. c.revision <= d.revision /\ d.revision <= c.revision
  BY <1>1 DEF Newest
<1> QED
  BY <1>1, <1>2, <1>3 DEF Unambiguous

LEMMA InitTypeOK == ASSUME Init PROVE CapsuleTypeOK
  BY DEF Init, CapsuleTypeOK, PublisherState, LoaderState

LEMMA PublisherTypeOK ==
  ASSUME CapsuleTypeOK, NEW q \in Publishers, PublisherStep(q)
  PROVE  CapsuleTypeOK'
<1> USE DEF CapsuleTypeOK, Moves, PublisherOnly, directory, PublisherState, Writing
<1>1. input[q] \in Capsules
  OBVIOUS
<1>2. CASE Begin(q)
  BY <1>2 DEF Begin, Returned
<1>3. CASE ListNew(q) \/ ListPublished(q) \/ Refuse(q) \/ LoadExisting(q) \/ Kill(q)
  BY <1>3 DEF ListNew, ListPublished, Refuse, LoadExisting, Kill
<1>4. CASE MakeTemporary(q) \/ Write(q)
  BY <1>4 DEF MakeTemporary, Write
<1>5. CASE Link(q)
  BY <1>1, <1>5 DEF Link
<1>6. CASE LinkExists(q) \/ Return(q) \/ Raise(q)
  BY <1>6 DEF LinkExists, Return, Raise, RemoveTemporary
<1> QED
  BY <1>2, <1>3, <1>4, <1>5, <1>6 DEF PublisherStep

LEMMA LoaderTypeOK ==
  ASSUME CapsuleTypeOK, NEW l \in Loaders, LoaderStep(l)
  PROVE  CapsuleTypeOK'
<1> USE DEF CapsuleTypeOK, Advances, directory, LoaderState
<1>1. CASE BeginLoad(l)
  BY <1>1 DEF BeginLoad, Returned
<1>2. CASE Select(l)
  <2>1. Newest \subseteq Capsules /\ \A c, d \in Newest : c = d
    BY <1>2, NewestIsOne DEF Select, Newest, Listed
  <2> QED
    BY <1>2, <2>1 DEF Select
<1>3. CASE LoadRefused(l)
  BY <1>3 DEF LoadRefused
<1>4. CASE ReadSelected(l)
  BY <1>4 DEF ReadSelected
<1> QED
  BY <1>1, <1>2, <1>3, <1>4 DEF LoaderStep

LEMMA NextTypeOK ==
  ASSUME CapsuleTypeOK, [Next]_vars
  PROVE  CapsuleTypeOK'
<1>1. CASE \E q \in Publishers : PublisherStep(q)
  BY <1>1, PublisherTypeOK
<1>2. CASE \E l \in Loaders : LoaderStep(l)
  BY <1>2, LoaderTypeOK
<1>3. CASE UNCHANGED vars
  BY <1>3 DEF CapsuleTypeOK, vars, directory
<1> QED
  BY <1>1, <1>2, <1>3 DEF Next

\* Every variable keeps its type, and a loader never holds two capsules.
THEOREM CapsuleTypeCorrect == Spec => []CapsuleTypeOK
<1>1. Init => CapsuleTypeOK
  BY InitTypeOK
<1>2. CapsuleTypeOK /\ [Next]_vars => CapsuleTypeOK'
  BY NextTypeOK
<1> QED
  BY <1>1, <1>2, PTL DEF Spec

-----------------------------------------------------------------------------
(* The directory: inodes, temporary files and what is readable.            *)

LEMMA InitDirectory == ASSUME Init PROVE DirectoryInv
  BY DEF Init, DirectoryInv, NoStrayTemporaries, PublishedReadable, Listed

LEMMA PublisherDirectory ==
  ASSUME CapsuleTypeOK, DirectoryInv, NEW q \in Publishers, PublisherStep(q)
  PROVE  DirectoryInv'
<1> USE DEF CapsuleTypeOK, DirectoryInv, NoStrayTemporaries, PublishedReadable, Readable,
            Listed, Moves, PublisherOnly, directory, PublisherState, Writing
<1>1. input' = input /\ input[q] \in Capsules
  BY DEF PublisherStep, Begin, ListNew, ListPublished, Refuse, MakeTemporary, Write,
         Link, LinkExists, LoadExisting, Return, Raise, Kill
<1>2. CASE Begin(q) \/ ListNew(q) \/ Refuse(q) \/ Kill(q)
  BY <1>1, <1>2 DEF Begin, ListNew, Refuse, Kill
<1>3. CASE ListPublished(q)
  <2>1. input[q] \in Listed
    BY <1>3 DEF ListPublished, SameRevision
  <2> QED
    BY <1>1, <1>3, <2>1 DEF ListPublished
<1>4. CASE MakeTemporary(q)
  <2>1. \A c \in Capsules : inode[c] # q
    BY <1>4, CapsuleAssumption DEF MakeTemporary
  <2>2. \A p \in Publishers : publisher'[p] = "done" => Readable(input[p])'
    BY <1>1, <1>4, <2>1 DEF MakeTemporary
  <2> QED
    BY <1>1, <1>4, <2>2 DEF MakeTemporary
<1>5. CASE Write(q)
  BY <1>1, <1>5 DEF Write
<1>6. CASE Link(q)
  BY <1>1, <1>6, CapsuleAssumption DEF Link, TargetFree
<1>7. CASE LinkExists(q)
  BY <1>1, <1>7 DEF LinkExists, TargetFree, RemoveTemporary
<1>8. CASE LoadExisting(q)
  BY <1>1, <1>8 DEF LoadExisting
<1>9. CASE Return(q)
  BY <1>1, <1>9 DEF Return, RemoveTemporary
<1>10. CASE Raise(q)
  BY <1>1, <1>10 DEF Raise, RemoveTemporary
<1> QED
  BY <1>2, <1>3, <1>4, <1>5, <1>6, <1>7, <1>8, <1>9, <1>10 DEF PublisherStep

LEMMA NextDirectory ==
  ASSUME CapsuleTypeOK, DirectoryInv, [Next]_vars
  PROVE  DirectoryInv'
<1>1. CASE \E q \in Publishers : PublisherStep(q)
  BY <1>1, PublisherDirectory
<1>2. ASSUME (\E l \in Loaders : LoaderStep(l)) \/ UNCHANGED vars
      PROVE  DirectoryInv'
  <2>1. UNCHANGED <<input, inode, temps, written, publisher>>
    BY <1>2 DEF LoaderStep, BeginLoad, Select, LoadRefused, ReadSelected, directory, vars
  <2> QED
    BY <2>1 DEF DirectoryInv, NoStrayTemporaries, PublishedReadable, Readable, Listed
<1> QED
  BY <1>1, <1>2 DEF Next

THEOREM DirectoryCorrect == Spec => [](CapsuleTypeOK /\ DirectoryInv)
<1>1. Init => CapsuleTypeOK /\ DirectoryInv
  BY InitTypeOK, InitDirectory
<1>2. CapsuleTypeOK /\ DirectoryInv /\ [Next]_vars => (CapsuleTypeOK /\ DirectoryInv)'
  BY NextTypeOK, NextDirectory
<1> QED
  BY <1>1, <1>2, PTL DEF Spec

\* The capsule of a publish that returned can be loaded from then on.
THEOREM PublishedStaysReadable == Spec => []PublishedReadable
<1>1. DirectoryInv => PublishedReadable
  BY DEF DirectoryInv
<1> QED
  BY <1>1, DirectoryCorrect, PTL

\* Only publishers that are writing, or were killed, leave temporary files.
THEOREM TemporariesAccounted == Spec => []NoStrayTemporaries
<1>1. DirectoryInv => NoStrayTemporaries
  BY DEF DirectoryInv
<1> QED
  BY <1>1, DirectoryCorrect, PTL

\* A capsule's name keeps the file it was first linked to.
THEOREM CapsulesKeepTheirFile == Spec => CapsulesImmutable
<1>1. CapsuleTypeOK /\ [Next]_vars => [\A c \in Listed : inode'[c] = inode[c]]_vars
  <2> SUFFICES ASSUME CapsuleTypeOK, Next
               PROVE  \A c \in Listed : inode'[c] = inode[c]
    BY DEF vars
  <2>1. ASSUME NEW q \in Publishers, PublisherStep(q)
        PROVE  \A c \in Listed : inode'[c] = inode[c]
    <3>1. CASE Link(q)
      BY <3>1 DEF Link, TargetFree, Listed, CapsuleTypeOK
    <3>2. CASE inode' = inode
      BY <3>2
    <3> QED
      BY <2>1, <3>1, <3>2
      DEF PublisherStep, Begin, ListNew, ListPublished, Refuse, MakeTemporary, Write,
          LinkExists, LoadExisting, Return, Raise, Kill, PublisherOnly, directory
  <2>2. ASSUME NEW l \in Loaders, LoaderStep(l)
        PROVE  \A c \in Listed : inode'[c] = inode[c]
    BY <2>2 DEF LoaderStep, BeginLoad, Select, LoadRefused, ReadSelected, directory
  <2> QED
    BY <2>1, <2>2 DEF Next
<1> QED
  BY <1>1, CapsuleTypeCorrect, PTL DEF Spec, CapsulesImmutable

-----------------------------------------------------------------------------
(* Order: calls and the publishers that returned before them.              *)

LEMMA InitOrder == ASSUME Init PROVE OrderInv
  BY CapsuleAssumption DEF Init, OrderInv, PublishedInOrder, CapsuleTypeOK

\* What has returned is listed.
LEMMA ReturnedListed ==
  ASSUME CapsuleTypeOK, DirectoryInv, NEW p \in Returned
  PROVE  input[p] \in Listed
  BY CapsuleAssumption
  DEF CapsuleTypeOK, DirectoryInv, PublishedReadable, Readable, Returned, Listed

LEMMA LowerIsOther ==
  ASSUME CapsuleTypeOK, NEW p \in Publishers, NEW q \in Publishers,
         input[p].revision < input[q].revision
  PROVE  input[p].revision # input[q].revision
<1>1. input[p].revision \in Nat /\ input[q].revision \in Nat
  BY CapsuleAssumption DEF CapsuleTypeOK, Capsules
<1> QED
  BY <1>1

LEMMA PublisherOrder ==
  ASSUME CapsuleTypeOK, DirectoryInv, OrderInv, NEW q \in Publishers, PublisherStep(q)
  PROVE  OrderInv'
<1> USE DEF CapsuleTypeOK, OrderInv, PublishedInOrder, Moves, PublisherOnly, directory,
            PublisherState, Writing
<1>1. input' = input /\ input[q] \in Capsules
  BY DEF PublisherStep, Begin, ListNew, ListPublished, Refuse, MakeTemporary, Write,
         Link, LinkExists, LoadExisting, Return, Raise, Kill
<1>2. Returned \subseteq Returned'
  BY DEF Returned, PublisherStep, Begin, ListNew, ListPublished, Refuse, MakeTemporary,
         Write, Link, LinkExists, LoadExisting, Return, Raise, Kill
<1>3. CASE Begin(q)
  <2>1. inode[input[q]] # q
    BY <1>1, <1>3, CapsuleAssumption DEF Begin, DirectoryInv, Listed
  <2>2. Returned \subseteq Publishers
    BY DEF Returned
  <2> QED
    BY <1>1, <1>2, <1>3, <2>1, <2>2, CapsuleAssumption DEF Begin
<1>4. CASE ListNew(q)
  <2>1. \A p \in before[q] : input[p].revision < input[q].revision
    BY <1>4, ReturnedListed DEF ListNew, InOrder
  <2> QED
    BY <1>1, <1>2, <1>4, <2>1 DEF ListNew
<1>5. CASE ListPublished(q)
  <2>1. \A p \in before[q] :
          input[p].revision = input[q].revision => input[p] = input[q]
    BY <1>5, ReturnedListed DEF ListPublished, SameRevision
  <2> QED
    BY <1>1, <1>2, <1>5, <2>1 DEF ListPublished
<1>6. CASE Refuse(q) \/ LoadExisting(q) \/ Kill(q)
  BY <1>1, <1>2, <1>6 DEF Refuse, LoadExisting, Kill
<1>7. CASE MakeTemporary(q) \/ Write(q)
  BY <1>1, <1>2, <1>7 DEF MakeTemporary, Write
<1>8. CASE Link(q) \/ LinkExists(q)
  <2>1. \A p \in before[q] :
          /\ input[p].revision < input[q].revision
          /\ input[p].revision # input[q].revision
    BY <1>8, LowerIsOther DEF Link, LinkExists
  <2> QED
    BY <1>1, <1>2, <1>8, <2>1 DEF Link, LinkExists
<1>9. CASE Return(q) \/ Raise(q)
  BY <1>1, <1>2, <1>9 DEF Return, Raise
<1> QED
  BY <1>3, <1>4, <1>5, <1>6, <1>7, <1>8, <1>9 DEF PublisherStep

LEMMA LoaderOrder ==
  ASSUME CapsuleTypeOK, DirectoryInv, OrderInv, NEW l \in Loaders, LoaderStep(l)
  PROVE  OrderInv'
<1> USE DEF CapsuleTypeOK, OrderInv, PublishedInOrder, Advances, directory, LoaderState
<1>1. UNCHANGED <<input, inode, publisher>> /\ Returned' = Returned
  BY DEF LoaderStep, BeginLoad, Select, LoadRefused, ReadSelected, Returned
<1>2. Returned \subseteq Publishers
  BY DEF Returned
<1>3. CASE BeginLoad(l)
  BY <1>1, <1>2, <1>3, CapsuleAssumption DEF BeginLoad
<1>4. CASE Select(l)
  <2>1. ASSUME NEW c \in Newest, NEW p \in before[l]
        PROVE  input[p].revision < c.revision \/ input[p] = c
    <3>1. input[p] \in Listed
      BY <2>1, ReturnedListed
    <3>2. input[p].revision <= c.revision
      BY <3>1 DEF Newest
    <3>3. input[p].revision \in Nat /\ c.revision \in Nat
      BY <3>1, CapsuleAssumption DEF Newest, Listed, Capsules
    <3> QED
      BY <1>4, <3>1, <3>2, <3>3 DEF Select, Unambiguous, Newest
  <2> QED
    BY <1>1, <1>4, <2>1 DEF Select
<1>5. CASE LoadRefused(l)
  BY <1>1, <1>5 DEF LoadRefused
<1>6. CASE ReadSelected(l)
  BY <1>1, <1>6 DEF ReadSelected
<1> QED
  BY <1>3, <1>4, <1>5, <1>6 DEF LoaderStep

LEMMA NextOrder ==
  ASSUME CapsuleTypeOK, DirectoryInv, OrderInv, [Next]_vars
  PROVE  OrderInv'
<1>1. CASE \E q \in Publishers : PublisherStep(q)
  BY <1>1, PublisherOrder
<1>2. CASE \E l \in Loaders : LoaderStep(l)
  BY <1>2, LoaderOrder
<1>3. CASE UNCHANGED vars
  BY <1>3 DEF OrderInv, PublishedInOrder, Returned, vars, directory
<1> QED
  BY <1>1, <1>2, <1>3 DEF Next

THEOREM OrderCorrect == Spec => []OrderInv
<1>1. Init => OrderInv
  BY InitOrder
<1>2. CapsuleTypeOK /\ DirectoryInv /\ OrderInv /\ [Next]_vars => OrderInv'
  BY NextOrder
<1> QED
  BY <1>1, <1>2, DirectoryCorrect, PTL DEF Spec

\* A capsule linked by a later call has a higher revision than those before.
THEOREM FollowUpsRaiseTheRevision == Spec => []PublishedInOrder
<1>1. OrderInv => PublishedInOrder
  BY DEF OrderInv
<1> QED
  BY <1>1, OrderCorrect, PTL

\* A load gives what was published before it began, or something newer.
THEOREM LoadsAreCurrent == Spec => []LoadSeesPublished
<1>1. OrderInv => LoadSeesPublished
  BY DEF OrderInv, LoadSeesPublished
<1> QED
  BY <1>1, OrderCorrect, PTL

\* Publishers that did not overlap agree on the input of a revision, however
\* many others raced with them: a listing shows what has returned, and a
\* capsule is linked under a revision above all that.
THEOREM SequentialPublishersAlwaysAgree == Spec => []SequentialPublishersAgree
<1>1. OrderInv => SequentialPublishersAgree
  BY DEF OrderInv, SequentialPublishersAgree, Returned
<1> QED
  BY <1>1, OrderCorrect, PTL

=============================================================================
