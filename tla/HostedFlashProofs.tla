-------------------------- MODULE HostedFlashProofs --------------------------
(***************************************************************************)
(* What the list of hosted images and a download guarantee for any number  *)
(* of windows, issues of the list, sizes of the image, transfers, kills    *)
(* and failures.  The list and the folder have inductive invariants of     *)
(* their own; the composition reaches each through its own steps.          *)
(***************************************************************************)
EXTENDS HostedFlash, SequenceTheorems, TLAPS

-----------------------------------------------------------------------------
(* Contents of files.                                                      *)

LEMMA SameRange ==
  ASSUME NEW m \in Nat, NEW n \in Nat, 1 .. m = 1 .. n
  PROVE  m = n
<1>1. CASE m > n
  <2>1. m \in 1 .. m /\ m \notin 1 .. n
    BY <1>1
  <2> QED BY <2>1
<1>2. CASE n > m
  <2>1. n \in 1 .. n /\ n \notin 1 .. m
    BY <1>2
  <2> QED BY <2>1
<1> QED BY <1>1, <1>2

LEMMA ContentFacts ==
  ASSUME NEW c \in Contents
  PROVE  /\ c \in Seq(0 .. Size) /\ Len(c) \in 0 .. Size /\ DOMAIN c = 1 .. Len(c)
         /\ Len(c) \in Nat
<1>1. PICK n \in 0 .. Size : c \in [1 .. n -> 0 .. Size]
  BY DEF Contents
<1>2. n \in Nat
  BY <1>1, SizeAssumption
<1>3. c \in Seq(0 .. Size)
  BY <1>1, <1>2, SeqDef, Zenon
<1>4. Len(c) \in Nat /\ DOMAIN c = 1 .. Len(c)
  BY <1>3, LenProperties, Zenon
<1>5. DOMAIN c = 1 .. n
  BY <1>1
<1>6. Len(c) = n
  <2>1. 1 .. Len(c) = 1 .. n
    BY <1>4, <1>5, Zenon
  <2> QED BY <1>2, <1>4, <2>1, SameRange, Zenon
<1> QED BY <1>1, <1>3, <1>4, <1>6

LEMMA IsContent ==
  ASSUME NEW c, c \in Seq(0 .. Size), Len(c) <= Size
  PROVE  c \in Contents
<1>1. Len(c) \in Nat /\ c \in [1 .. Len(c) -> 0 .. Size]
  BY LenProperties, Zenon
<1>2. Len(c) \in 0 .. Size
  BY <1>1, SizeAssumption
<1> QED BY <1>1, <1>2 DEF Contents

\* A byte more, and what a shortened or garbled file still has.
LEMMA ContentMore ==
  ASSUME NEW c \in Contents, NEW byte \in 0 .. Size, Len(c) < Size
  PROVE  /\ Append(c, byte) \in Contents /\ Len(Append(c, byte)) = Len(c) + 1
         /\ \A i \in 1 .. Len(c) : Append(c, byte)[i] = c[i]
         /\ Append(c, byte)[Len(c) + 1] = byte
<1>1. /\ c \in Seq(0 .. Size) /\ Len(c) \in 0 .. Size /\ DOMAIN c = 1 .. Len(c)
      /\ Len(c) \in Nat /\ Size \in Nat
  BY ContentFacts, SizeAssumption
<1>2. Append(c, byte) \in Seq(0 .. Size) /\ Len(Append(c, byte)) = Len(c) + 1
  BY <1>1
<1>3. Len(Append(c, byte)) <= Size
  BY <1>1, <1>2
<1>4. Append(c, byte) \in Contents
  BY <1>2, <1>3, IsContent, Zenon
<1>5. /\ \A i \in 1 .. Len(c) : Append(c, byte)[i] = c[i]
      /\ Append(c, byte)[Len(c) + 1] = byte
  BY <1>1
<1> QED BY <1>2, <1>4, <1>5

LEMMA ContentLess ==
  ASSUME NEW c \in Contents, NEW n \in 0 .. Len(c)
  PROVE  /\ SubSeq(c, 1, n) \in Contents /\ Len(SubSeq(c, 1, n)) = n
         /\ \A i \in 1 .. n : SubSeq(c, 1, n)[i] = c[i]
<1>1. /\ c \in Seq(0 .. Size) /\ Len(c) \in 0 .. Size /\ DOMAIN c = 1 .. Len(c)
      /\ Len(c) \in Nat /\ Size \in Nat /\ n \in Nat /\ n <= Len(c)
  BY ContentFacts, SizeAssumption
<1>2. \A i \in 1 .. n : c[i] \in 0 .. Size
  <2>1. ASSUME NEW i \in 1 .. n
        PROVE  c[i] \in 0 .. Size
    <3>1. i \in 1 .. Len(c)
      BY <1>1
    <3> QED BY <1>1, <3>1, ElementOfSeq, Zenon
  <2> QED BY <2>1
<1>3. /\ SubSeq(c, 1, n) \in Seq(0 .. Size)
      /\ Len(SubSeq(c, 1, n)) = IF 1 <= n THEN n - 1 + 1 ELSE 0
      /\ \A i \in 1 .. n - 1 + 1 : SubSeq(c, 1, n)[i] = c[1 + i - 1]
  <2>1. 1 \in Int /\ n \in Int
    BY <1>1
  <2>2. \A i \in 1 .. n : c[i] \in 0 .. Size
    BY <1>2
  <2>3. /\ SubSeq(c, 1, n) \in Seq(0 .. Size)
        /\ Len(SubSeq(c, 1, n)) = IF 1 <= n THEN n - 1 + 1 ELSE 0
        /\ \A i \in 1 .. n - 1 + 1 : SubSeq(c, 1, n)[i] = c[1 + i - 1]
    BY <2>1, <2>2, SubSeqProperties
  <2> QED BY <2>3
<1>4. Len(SubSeq(c, 1, n)) = n
  BY <1>1, <1>3
<1>5. ASSUME NEW i \in 1 .. n
      PROVE  SubSeq(c, 1, n)[i] = c[i]
  <2>1. 1 + i - 1 = i /\ n - 1 + 1 = n
    BY <1>1
  <2> QED BY <1>3, <2>1
<1>6. Len(SubSeq(c, 1, n)) <= Size
  BY <1>1, <1>4
<1>7. SubSeq(c, 1, n) \in Contents
  BY <1>3, <1>6, IsContent, Zenon
<1> QED BY <1>4, <1>5, <1>7

LEMMA ContentGarbled ==
  ASSUME NEW c \in Contents
  PROVE  Garbled(c) \in Contents /\ Len(Garbled(c)) = Len(c)
<1>1. /\ c \in Seq(0 .. Size) /\ Len(c) \in 0 .. Size /\ Len(c) \in Nat
  BY ContentFacts
<1>2. Garbled(c) = [i \in 1 .. Len(c) |-> IF i = 1 THEN Wrong ELSE c[i]]
  BY NoFileAssumption DEF Garbled
<1>3. \A i \in 1 .. Len(c) : (IF i = 1 THEN Wrong ELSE c[i]) \in 0 .. Size
  <2>1. \A i \in 1 .. Len(c) : c[i] \in 0 .. Size
    BY <1>1, ElementOfSeq, Zenon
  <2>2. Wrong \in 0 .. Size
    BY SizeAssumption DEF Wrong
  <2> QED BY <2>1, <2>2
<1>4. Garbled(c) \in [1 .. Len(c) -> 0 .. Size]
  BY <1>2, <1>3
<1>5. Garbled(c) \in Contents
  BY <1>1, <1>4 DEF Contents
<1>6. Len(Garbled(c)) \in Nat /\ DOMAIN Garbled(c) = 1 .. Len(Garbled(c))
  BY <1>5, ContentFacts, Zenon
<1>7. DOMAIN Garbled(c) = 1 .. Len(c)
  BY <1>4
<1> QED BY <1>1, <1>5, <1>6, <1>7

LEMMA ImageFacts ==
  /\ Image \in Contents /\ Len(Image) = Size /\ \A i \in 1 .. Size : Image[i] = i
  /\ <<>> \in Contents /\ Len(<<>>) = 0
<1>1. Image \in [1 .. Size -> 0 .. Size] /\ Size \in 0 .. Size
  BY SizeAssumption DEF Image
<1>2. Image \in Contents
  BY <1>1 DEF Contents
<1>3. Len(Image) \in Nat /\ DOMAIN Image = 1 .. Len(Image)
  BY <1>2, ContentFacts, Zenon
<1>4. DOMAIN Image = 1 .. Size
  BY <1>1
<1>5. Len(Image) = Size
  <2>1. 1 .. Len(Image) = 1 .. Size /\ Size \in Nat
    BY <1>3, <1>4, SizeAssumption
  <2> QED BY <1>3, <2>1, SameRange, Zenon
<1>6. \A i \in 1 .. Size : Image[i] = i
  BY DEF Image
<1>7. <<>> \in Seq(0 .. Size) /\ Len(<<>>) = 0
  BY EmptySeq, Zenon
<1>8. <<>> \in Contents
  <2>1. Len(<<>>) <= Size
    BY <1>7, SizeAssumption
  <2> QED BY <1>7, <2>1, IsContent, Zenon
<1> QED BY <1>2, <1>5, <1>6, <1>7, <1>8

\* Each byte at its place.
InOrder(c) == \A i \in 1 .. Len(c) : c[i] = i

LEMMA SameContent ==
  ASSUME NEW c \in Contents, NEW d \in Contents, Len(c) = Len(d),
         \A i \in 1 .. Len(c) : c[i] = d[i]
  PROVE  c = d
<1>1. c \in Seq(0 .. Size) /\ d \in Seq(0 .. Size)
  BY ContentFacts
<1> QED BY <1>1, SeqEqual, Zenon

LEMMA OrderFacts ==
  ASSUME NEW c \in Contents
  PROVE  /\ InOrder(c) <=> c = SubSeq(Image, 1, Len(c))
         /\ InOrder(c) /\ Len(c) = Size => c = Image
<1>1. Len(c) \in 0 .. Size /\ Len(c) \in Nat /\ Size \in Nat
  BY ContentFacts, SizeAssumption
<1>2. Len(c) \in 0 .. Len(Image)
  BY <1>1, ImageFacts
<1>3. /\ SubSeq(Image, 1, Len(c)) \in Contents
      /\ Len(SubSeq(Image, 1, Len(c))) = Len(c)
      /\ \A i \in 1 .. Len(c) : SubSeq(Image, 1, Len(c))[i] = i
  <2>1. /\ SubSeq(Image, 1, Len(c)) \in Contents
        /\ Len(SubSeq(Image, 1, Len(c))) = Len(c)
        /\ \A i \in 1 .. Len(c) : SubSeq(Image, 1, Len(c))[i] = Image[i]
    BY <1>2, ImageFacts, ContentLess, Zenon
  <2>2. \A i \in 1 .. Len(c) : Image[i] = i
    BY <1>1, ImageFacts
  <2> QED BY <2>1, <2>2, Zenon
<1>4. ASSUME InOrder(c)
      PROVE  c = SubSeq(Image, 1, Len(c))
  <2>1. \A i \in 1 .. Len(c) : c[i] = SubSeq(Image, 1, Len(c))[i]
    BY <1>3, <1>4, Zenon DEF InOrder
  <2> QED BY <1>3, <2>1, SameContent, Zenon
<1>5. ASSUME c = SubSeq(Image, 1, Len(c))
      PROVE  InOrder(c)
  BY <1>3, <1>5, Zenon DEF InOrder
<1>6. ASSUME InOrder(c), Len(c) = Size
      PROVE  c = Image
  <2>1. \A i \in 1 .. Len(c) : c[i] = Image[i]
    BY <1>6, ImageFacts, Zenon DEF InOrder
  <2> QED BY <1>6, <2>1, ImageFacts, SameContent, Zenon
<1> QED BY <1>4, <1>5, <1>6

-----------------------------------------------------------------------------
(* The list of images.                                                     *)

Holding == {"asking", "storing", "marking"}

\* Whoever is between the question and the watermark holds the lock, and what
\* it has in hand is not older than the watermark; the cached list is never
\* older either, and the watermark is the newest list shown.
ListOK ==
  /\ \A w \in Windows :
       /\ at[w] \in Holding <=> listLock = w
       /\ at[w] \in {"storing", "marking"} => read[w] >= mark
       /\ at[w] = "marking" => index = read[w]
  /\ CacheUsable /\ newest = mark

ListInv == CatalogTypeOK /\ ListOK

ListStep ==
  \/ \E w \in Windows : \/ CatalogSteps(w) \/ CatalogKilled(w)
                        \/ /\ at[w] = "out" /\ list' = [list EXCEPT ![w] = NoList]
                           /\ UNCHANGED <<issued, index, mark, listLock, at, read, newest>>
  \/ Published \/ ListLockReviewed \/ UNCHANGED catalogVars

LEMMA ListSteps == [Next]_vars => ListStep
BY DEF Next, vars, ListStep, Works, Looks, Chooses, Flashes, Issued, Killed, DiskDamaged,
       ListLockRemoved, LockRemoved, FolderCleared

LEMMA ListInit == Init => ListInv
<1> SUFFICES ASSUME Init PROVE ListInv
  OBVIOUS
<1>1. /\ issued = 1 /\ index = 0 /\ mark = 0 /\ newest = 0 /\ listLock = NoOne
      /\ at = [w \in Windows |-> "out"] /\ read = [w \in Windows |-> 0]
      /\ list = [w \in Windows |-> 0]
  BY DEF Init, CatalogInit, NoList
<1>2. CatalogTypeOK
  BY <1>1, IssuesAssumption DEF CatalogTypeOK, Issues, NoList, Owners
<1> QED BY <1>1, <1>2, OwnersAssumption DEF ListInv, ListOK, Holding, CacheUsable

LEMMA ListNext == ListInv /\ ListStep => ListInv'
<1> SUFFICES ASSUME ListInv, ListStep PROVE ListInv'
  OBVIOUS
<1>1. /\ issued \in 1 .. MaxIssues /\ index \in 0 .. MaxIssues /\ mark \in 0 .. MaxIssues
      /\ newest \in 0 .. MaxIssues /\ MaxIssues \in Nat
  BY IssuesAssumption DEF ListInv, CatalogTypeOK, Issues, NoList
<1>2. ASSUME NEW w \in Windows, Fetches(w) PROVE ListInv'
  BY <1>2, OwnersAssumption
     DEF Fetches, ListInv, CatalogTypeOK, ListOK, Holding, CacheUsable, Turns, Owners
<1>3. ASSUME NEW w \in Windows, LockedOut(w) PROVE ListInv'
  BY <1>1, <1>3 DEF LockedOut, Shows, Takes, Turns, ListInv, CatalogTypeOK, ListOK, Holding,
                    CacheUsable, Issues, NoList
<1>4. ASSUME NEW w \in Windows, Answered(w) PROVE ListInv'
  BY <1>1, <1>4 DEF Answered, NotBefore, Takes, Turns, ListInv, CatalogTypeOK, ListOK, Holding,
                    CacheUsable, Issues, NoList
<1>5. ASSUME NEW w \in Windows, RolledBack(w) PROVE ListInv'
  BY <1>1, <1>5, OwnersAssumption
     DEF RolledBack, Shows, Takes, Turns, ListInv, CatalogTypeOK, ListOK, Holding,
         CacheUsable, Issues, NoList, Owners
<1>6. ASSUME NEW w \in Windows, ListStored(w) PROVE ListInv'
  BY <1>1, <1>6 DEF ListStored, Turns, ListInv, CatalogTypeOK, ListOK, Holding,
                    CacheUsable, Issues, NoList
<1>7. ASSUME NEW w \in Windows, MarkStored(w) PROVE ListInv'
  BY <1>1, <1>7, OwnersAssumption
     DEF MarkStored, Shows, Takes, Turns, ListInv, CatalogTypeOK, ListOK, Holding,
         CacheUsable, Issues, NoList, Owners
<1>8. ASSUME NEW w \in Windows, Offline(w) PROVE ListInv'
  BY <1>1, <1>8, OwnersAssumption
     DEF Offline, Takes, Turns, ListInv, CatalogTypeOK, ListOK, Holding,
         CacheUsable, Issues, NoList, Owners
<1>9. ASSUME NEW w \in Windows, CacheShown(w) PROVE ListInv'
  BY <1>1, <1>9 DEF CacheShown, Shows, Takes, Turns, ListInv, CatalogTypeOK, ListOK, Holding,
                    CacheUsable, Issues, NoList
<1>10. ASSUME NEW w \in Windows, CatalogKilled(w) PROVE ListInv'
  BY <1>1, <1>10, OwnersAssumption
     DEF CatalogKilled, LeftBy, Shows, Takes, Turns, ListInv, CatalogTypeOK, ListOK, Holding,
         CacheUsable, Issues, NoList, Owners
<1>11. ASSUME NEW w \in Windows, list' = [list EXCEPT ![w] = NoList],
              UNCHANGED <<issued, index, mark, listLock, at, read, newest>>
       PROVE  ListInv'
  BY <1>1, <1>11 DEF ListInv, CatalogTypeOK, ListOK, CacheUsable, Issues, NoList
<1>12. CASE Published
  BY <1>1, <1>12 DEF Published, ListInv, CatalogTypeOK, ListOK, CacheUsable
<1>13. CASE ListLockReviewed
  BY <1>13, OwnersAssumption DEF ListLockReviewed, ListInv, CatalogTypeOK, ListOK, CacheUsable, Owners
<1>14. CASE UNCHANGED catalogVars
  BY <1>14 DEF catalogVars, ListInv, CatalogTypeOK, ListOK, CacheUsable
<1> QED
  BY <1>2, <1>3, <1>4, <1>5, <1>6, <1>7, <1>8, <1>9, <1>10, <1>11, <1>12, <1>13, <1>14
     DEF ListStep, CatalogSteps

\* A step shows a fetched list that is not older than the watermark.
LEMMA ShownInOrder ==
  ASSUME ListInv, ListStep, NEW w \in Windows, at[w] = "marking",
         list'[w] # list[w], list'[w] # NoList
  PROVE  list'[w] >= newest
<1>1. list \in [Windows -> Issues] /\ listLock = w /\ read[w] >= mark /\ newest = mark
  BY DEF ListInv, CatalogTypeOK, ListOK, Holding
<1>2. PICK v \in Windows : CatalogSteps(v) \/ CatalogKilled(v)
                           \/ list' = [list EXCEPT ![v] = NoList]
  BY DEF ListStep, Published, ListLockReviewed, catalogVars
<1>3. CASE v = w
  BY <1>1, <1>2, <1>3
     DEF CatalogSteps, CatalogKilled, Fetches, LockedOut, Answered, RolledBack, ListStored,
         MarkStored, Offline, CacheShown, Shows, Turns
<1>4. CASE v # w
  BY <1>1, <1>2, <1>4
     DEF CatalogSteps, CatalogKilled, Fetches, LockedOut, Answered, RolledBack, ListStored,
         MarkStored, Offline, CacheShown, Shows, Turns
<1> QED BY <1>3, <1>4

LEMMA ListInvariant == Spec => []ListInv
<1>1. ListInv /\ [Next]_vars => ListInv'
  BY ListSteps, ListNext
<1> QED BY <1>1, ListInit, PTL DEF Spec

\* fetch_catalog, cached_catalog: however fetches of any windows are cut short,
\* killed or refused, the cached list is never older than the watermark.
THEOREM CacheStaysUsable == Spec => []CacheUsable
<1>1. ListInv => CacheUsable
  BY DEF ListInv, ListOK
<1> QED BY <1>1, ListInvariant, PTL

\* fetch_catalog: no window shows a fetched list older than one that any of
\* them has fetched and shown before.
THEOREM ListsInOrder == Spec => FetchedInOrder
<1>1. ListInv /\ [Next]_vars =>
        [\A w \in Windows :
           at[w] = "marking" /\ list'[w] # list[w] /\ list'[w] # NoList => list'[w] >= newest
          ]_catalogVars
  BY ListSteps, ShownInOrder
<1> QED BY <1>1, ListInvariant, PTL DEF Spec, FetchedInOrder

-----------------------------------------------------------------------------
(* The download.                                                           *)

InHand(w) == pc[w] \in {"restart", "receive", "received"} \/ (pc[w] = "request" /\ got[w] # <<>>)

\* What a window counts as downloaded is the partial file, unless the disk was
\* damaged: and even then as long as it.
HandOK(w) ==
  /\ InHand(w) => /\ part \in Contents /\ Len(part) = Len(got[w])
                  /\ honest \/ clean => part = got[w]
  /\ pc[w] = "link" /\ honest => part = Image

BytesOK ==
  honest => /\ part # NoFile => InOrder(part)
            /\ final # NoFile => final = Image

\* An empty folder, a partial file that its receipt is about, and a folder that
\* holds nothing but those two.
Bare ==
  /\ locks = {} /\ part = NoFile /\ synced = 0 /\ receipt = NoFile
  /\ final = NoFile /\ proven = FALSE
Pair == part # NoFile => receipt = part
Left == locks = {} /\ final = NoFile /\ part # NoFile /\ receipt = part

\* What the folder holds at each place of a session, when nothing was killed or
\* damaged since the folder was made.
CleanOK(w) ==
  /\ pc[w] = "enter" /\ folder # "absent" => folder = "owned" /\ Left
  /\ pc[w] = "marking" => Bare
  /\ pc[w] \in {"fetch", "claim"} => locks = {}
  /\ pc[w] = "list" => locks = {"list"}
  /\ pc[w] \in {"fetch", "list", "claim", "look", "request"} => final = NoFile /\ Pair
  /\ pc[w] \in {"look", "request", "restart", "receive"} => locks = {"archive"} /\ final = NoFile
  /\ pc[w] = "failed" /\ code[w] = "transient" => locks = {} /\ final = NoFile /\ Pair
  /\ (pc[w] = "failed" /\ code[w] = "stopped") \/ keep[w] => (part # NoFile => Left)

SessionOK(w) ==
  /\ pc[w] \notin {"idle", "enter", "marking"} => folder = "owned"
  /\ pc[w] = "marking" => folder = "bare"
  /\ pc[w] \in {"drop", "check"} => part = NoFile
  /\ keep[w] => pc[w] = "leave"
  /\ clean => CleanOK(w)

FolderOK ==
  /\ folder = "absent" => Bare
  /\ lock = Dead => ~clean

DownloadInv ==
  /\ DownloadTypeOK /\ BytesOK /\ FolderOK /\ LeftToResume
  /\ \A w \in Windows : HandOK(w) /\ SessionOK(w)

DownloadStep ==
  \/ \E w \in Windows : DownloadSteps(w) \/ Opens(w) \/ DownloadKilled(w)
  \/ Damaged \/ LockReviewed \/ FolderReviewed
  \/ Accident /\ UNCHANGED <<lock, disk, sessions, honest, clean>>
  \/ UNCHANGED downloadVars

LEMMA DownloadStepsOnly == [Next]_vars => DownloadStep
BY DEF Next, vars, DownloadStep, Works, Looks, Chooses, Flashes, Issued, Killed, DiskDamaged,
       ListLockRemoved, LockRemoved, FolderCleared

\* The type of the folder, and that of the sessions.
FolderType ==
  /\ lock \in Owners /\ folder \in {"absent", "bare", "owned"}
  /\ locks \subseteq {"list", "archive"}
  /\ part \in Contents \cup {NoFile} /\ receipt \in Contents \cup {NoFile}
  /\ final \in Contents \cup {NoFile}
  /\ synced \in 0 .. Size /\ proven \in BOOLEAN

SessionType ==
  /\ pc \in [Windows -> Places] /\ got \in [Windows -> Contents]
  /\ code \in [Windows -> Failures \cup {"none"}]
  /\ tries \in [Windows -> 0 .. MaxTries] /\ keep \in [Windows -> BOOLEAN]
  /\ \A w \in Windows : pc[w] # "idle" <=> lock = w

GhostType ==
  /\ kills \in 0 .. MaxKills /\ fails \in 0 .. MaxFails /\ honest \in BOOLEAN /\ clean \in BOOLEAN

LEMMA TypeParts == DownloadTypeOK <=> FolderType /\ SessionType /\ GhostType
BY DEF DownloadTypeOK, FolderType, SessionType, GhostType

LEMMA TypePartsNext == FolderType' /\ SessionType' /\ GhostType' => DownloadTypeOK'
BY DEF DownloadTypeOK, FolderType, SessionType, GhostType

LEMMA DownloadStart == Init => DownloadInv
<1> SUFFICES ASSUME Init PROVE DownloadInv
  OBVIOUS
<1>1. DownloadInit
  BY DEF Init
<1>2. DownloadTypeOK
  <2>1. FolderType
    <3>1. /\ lock = NoOne /\ folder = "absent" /\ locks = {} /\ part = NoFile /\ synced = 0
          /\ receipt = NoFile /\ final = NoFile /\ proven = FALSE
      BY <1>1 DEF DownloadInit
    <3>2. proven \in BOOLEAN /\ locks \subseteq {"list", "archive"} /\ synced \in 0 .. Size
      <4>1. proven \in BOOLEAN
        BY <3>1, Zenon
      <4> QED BY <3>1, <4>1, SizeAssumption
    <3> QED BY <3>1, <3>2 DEF FolderType, Owners
  <2>2. SessionType
    BY <1>1, ImageFacts, TriesAssumption, OwnersAssumption
       DEF DownloadInit, SessionType, Places, Failures
  <2>3. GhostType
    BY <1>1, TriesAssumption DEF DownloadInit, GhostType
  <2> QED BY <2>1, <2>2, <2>3, TypeParts
<1>3. BytesOK /\ FolderOK /\ LeftToResume
  BY <1>1, OwnersAssumption DEF DownloadInit, BytesOK, FolderOK, Bare, LeftToResume
<1>4. ASSUME NEW w \in Windows PROVE HandOK(w) /\ SessionOK(w)
  BY <1>1, <1>4 DEF DownloadInit, HandOK, InHand, SessionOK, CleanOK
<1> QED BY <1>2, <1>3, <1>4 DEF DownloadInv

\* The steps of a download are those of a session.
LEMMA InSession ==
  ASSUME NEW w \in Windows, DownloadSteps(w) PROVE pc[w] # "idle"
BY DEF DownloadSteps, FolderMade, FolderMarked, FolderFound, FolderForeign, ListAsked,
       ListChecked, ArchiveLocked, Locks, ArchiveFound, ManifestFetched, Continued, Restarted,
       RestartNoted, RequestFails, RightByte, WrongByte, Receives, Noted, Received,
       Interrupted, DigestWrong, Proven, Linked, Unlinked, ReceiptDropped, ArchiveChecked,
       Retried, GivenUp, FlashBegins, FlashEnds, FolderKept, FolderRemoved

\* Who is not idle holds the lock of the folder, and the others are idle.
LEMMA OneSession ==
  ASSUME DownloadInv, NEW w \in Windows, pc[w] # "idle" \/ lock \notin Windows
  PROVE  /\ pc[w] # "idle" => lock = w
         /\ \A v \in Windows \ {w} : pc[v] = "idle" /\ keep[v] = FALSE
<1>1. \A v \in Windows : pc[v] # "idle" <=> lock = v
  BY DEF DownloadInv, DownloadTypeOK
<1>2. \A v \in Windows : keep[v] \in BOOLEAN /\ (keep[v] => pc[v] = "leave")
  BY DEF DownloadInv, DownloadTypeOK, SessionOK
<1> QED BY <1>1, <1>2

\* What a window of a session relies on while it has a partial file in hand.
LEMMA HandFacts ==
  ASSUME DownloadInv, NEW w \in Windows, InHand(w)
  PROVE  /\ part \in Contents /\ got[w] \in Contents /\ part # NoFile
         /\ Len(part) \in 0 .. Size /\ Len(got[w]) = Len(part)
BY ContentFacts, NoFileAssumption DEF DownloadInv, DownloadTypeOK, HandOK

-----------------------------------------------------------------------------
(* Types.                                                                  *)

LEMMA MovesType ==
  ASSUME SessionType, NEW w \in Windows, pc[w] # "idle",
         \E place \in Places \ {"idle"} : pc' = [pc EXCEPT ![w] = place],
         code' = code \/ \E failure \in Failures : code' = [code EXCEPT ![w] = failure],
         UNCHANGED <<lock, got, tries, keep>>
  PROVE  SessionType'
<1>1. PICK place \in Places \ {"idle"} : pc' = [pc EXCEPT ![w] = place]
  OBVIOUS
<1>2. /\ pc' \in [Windows -> Places] /\ pc'[w] = place
      /\ \A v \in Windows \ {w} : pc'[v] = pc[v]
  BY <1>1 DEF SessionType
<1>3. \A v \in Windows : pc'[v] # "idle" <=> lock' = v
  BY <1>1, <1>2 DEF SessionType
<1>4. code' \in [Windows -> Failures \cup {"none"}]
  BY DEF SessionType
<1> QED BY <1>2, <1>3, <1>4 DEF SessionType

LEMMA TypeSteps ==
  ASSUME DownloadInv, NEW w \in Windows, DownloadSteps(w) PROVE DownloadTypeOK'
<1>1. /\ DownloadTypeOK /\ Size \in Nat /\ MaxTries \in Nat /\ MaxFails \in Nat /\ MaxKills \in Nat
      /\ <<>> \in Contents /\ FolderType /\ SessionType /\ GhostType
  BY SizeAssumption, TriesAssumption, ImageFacts, TypeParts DEF DownloadInv
<1>2. CASE FolderMade(w)
  BY <1>1, <1>2
     DEF FolderMade, DownloadTypeOK, Goes, Failures, Places
<1>3. CASE FolderMarked(w)
  BY <1>1, <1>3
     DEF FolderMarked, DownloadTypeOK, Goes, Failures, Places, ghosts
<1>4. CASE FolderFound(w)
  BY <1>1, <1>4
     DEF FolderFound, DownloadTypeOK, Goes, Failures, Places, disk, ghosts
<1>5. CASE FolderForeign(w)
  BY <1>1, <1>5, OwnersAssumption
     DEF FolderForeign, DownloadTypeOK, Goes, Failures, Places, disk, ghosts, Owners
<1>6. CASE ListAsked(w)
  <2>1. FolderType'
    BY <1>1, <1>6 DEF ListAsked, Locks, FolderType
  <2>2. SessionType'
    BY <1>1, <1>6, MovesType DEF ListAsked, Locks, Goes, Fails, Failures, Places
  <2>3. GhostType'
    BY <1>1, <1>6 DEF ListAsked, Locks, ghosts, GhostType
  <2> QED BY <2>1, <2>2, <2>3, TypePartsNext
<1>7. CASE ListChecked(w)
  <2>1. FolderType'
    BY <1>1, <1>7 DEF ListChecked, BreaksOff, FolderType
  <2>2. SessionType'
    BY <1>1, <1>7 DEF ListChecked, BreaksOff, Goes, Fails, Failures, Places, SessionType
  <2>3. GhostType'
    BY <1>1, <1>7 DEF ListChecked, BreaksOff, Fault, ghosts, GhostType
  <2> QED BY <2>1, <2>2, <2>3, TypePartsNext
<1>8. CASE ArchiveLocked(w)
  <2>1. FolderType'
    BY <1>1, <1>8
       DEF ArchiveLocked, Locks, Goes, Fails, ghosts, FolderType
  <2>2. SessionType'
    BY <1>1, <1>8, MovesType DEF ArchiveLocked, Locks, Goes, Fails, Failures, Places
  <2>3. GhostType'
    BY <1>1, <1>8
       DEF ArchiveLocked, Locks, Goes, Fails, ghosts, GhostType
  <2> QED BY <2>1, <2>2, <2>3, TypePartsNext
<1>9. CASE ArchiveFound(w)
  <2>1. FolderType'
    <3>1. UNCHANGED <<lock, folder, part, synced, receipt, final, proven>>
      BY <1>9 DEF ArchiveFound, BreaksOff
    <3>2. locks' = locks \ {"archive"}
      BY <1>9 DEF ArchiveFound, Unlocked
    <3> QED BY <1>1, <3>1, <3>2 DEF FolderType
  <2>2. SessionType'
    <3>1. pc[w] # "idle" /\ UNCHANGED <<lock, got, tries, keep>>
      BY <1>9 DEF ArchiveFound, BreaksOff
    <3>2. \E place \in Places \ {"idle"} : pc' = [pc EXCEPT ![w] = place]
      BY <1>9 DEF ArchiveFound, BreaksOff, Goes, Fails, Places
    <3>3. code' = code \/ \E failure \in Failures : code' = [code EXCEPT ![w] = failure]
      BY <1>9 DEF ArchiveFound, BreaksOff, Fails, Failures
    <3> QED BY <1>1, <3>1, <3>2, <3>3, MovesType
  <2>3. GhostType'
    BY <1>1, <1>9
       DEF ArchiveFound, BreaksOff, Unlocked, Verified, Goes, Fails, Fault, Failures,
           ghosts, GhostType
  <2> QED BY <2>1, <2>2, <2>3, TypePartsNext
<1>10. CASE ManifestFetched(w)
  <2>1. FolderType'
    <3>1. UNCHANGED <<lock, folder, part, synced, receipt, final, proven>>
      BY <1>10 DEF ManifestFetched, BreaksOff
    <3>2. locks' = locks \/ locks' = locks \ {"archive"}
      BY <1>10 DEF ManifestFetched, StartsAnew, Resumes, Unlocked
    <3> QED BY <1>1, <3>1, <3>2 DEF FolderType
  <2>2. SessionType'
    <3>1. pc[w] = "look" /\ UNCHANGED <<lock, tries, keep>>
      BY <1>10 DEF ManifestFetched, BreaksOff
    <3>2. \E place \in Places \ {"idle"} : pc' = [pc EXCEPT ![w] = place]
      BY <1>10 DEF ManifestFetched, BreaksOff, StartsAnew, Resumes, Goes, Fails, Places
    <3>3. got' \in [Windows -> Contents]
      BY <1>1, <1>10
         DEF ManifestFetched, BreaksOff, StartsAnew, Resumes, Counts, FolderType,
             SessionType
    <3>4. code' \in [Windows -> Failures \cup {"none"}]
      BY <1>1, <1>10
         DEF ManifestFetched, BreaksOff, StartsAnew, Resumes, Fails, Failures, SessionType
    <3>5. PICK place \in Places \ {"idle"} : pc' = [pc EXCEPT ![w] = place]
      BY <3>2
    <3>6. pc' \in [Windows -> Places] /\ \A v \in Windows : pc'[v] # "idle" <=> lock' = v
      BY <1>1, <3>1, <3>5 DEF SessionType
    <3> QED BY <1>1, <3>1, <3>3, <3>4, <3>6 DEF SessionType
  <2>3. GhostType'
    BY <1>1, <1>10
       DEF ManifestFetched, BreaksOff, Unlocked, StartsAnew, Resumes, ReceiptAgrees, Goes,
           Counts, Fails, Fault, Failures, ghosts, GhostType
  <2> QED BY <2>1, <2>2, <2>3, TypePartsNext
<1>11. CASE Continued(w)
  BY <1>1, <1>11, HandFacts
     DEF Continued, Checkpoint, DownloadTypeOK, Goes, Failures, Places, ghosts, InHand
<1>12. CASE Restarted(w)
  BY <1>1, <1>12
     DEF Restarted, Truncated, DownloadTypeOK, Goes, Counts, Failures, Places, ghosts
<1>13. CASE RestartNoted(w)
  BY <1>1, <1>13, HandFacts
     DEF RestartNoted, Checkpoint, DownloadTypeOK, Goes, Failures, Places, ghosts, InHand
<1>14. CASE RequestFails(w)
  BY <1>1, <1>14
     DEF RequestFails, Unlocked, BreaksOff, DownloadTypeOK, Goes, Fails, Fault, Failures,
         Places
<1>15. CASE RightByte(w)
  <2>1. InHand(w) /\ Len(got[w]) < Size
    BY <1>15 DEF RightByte, Receives, Expects, InHand
  <2> DEFINE byte == Len(got[w]) + 1
  <2>2. byte \in 0 .. Size
    BY <1>1, <2>1, HandFacts DEF Wrong
  <2>3. Append(got[w], byte) \in Contents /\ Append(part, byte) \in Contents
    BY <1>1, <2>1, <2>2, HandFacts, ContentMore
  <2>4. Receives(w, byte)
    BY <1>15 DEF RightByte
  <2> HIDE DEF byte
  <2> QED BY <1>1, <1>15, <2>3, <2>4 DEF RightByte, Receives, DownloadTypeOK, Counts, Fault
<1>16. CASE WrongByte(w)
  <2>1. InHand(w) /\ Len(got[w]) < Size
    BY <1>16 DEF WrongByte, Receives, Expects, InHand
  <2> DEFINE byte == Wrong
  <2>2. byte \in 0 .. Size
    BY <1>1, <2>1, HandFacts DEF Wrong
  <2>3. Append(got[w], byte) \in Contents /\ Append(part, byte) \in Contents
    BY <1>1, <2>1, <2>2, HandFacts, ContentMore
  <2>4. Receives(w, byte)
    BY <1>16 DEF WrongByte
  <2> HIDE DEF byte
  <2>5. FolderType'
    BY <1>1, <1>16, <2>3, <2>4 DEF WrongByte, Receives, Fault, FolderType
  <2>6. SessionType'
    BY <1>1, <1>16, <2>3, <2>4 DEF WrongByte, Receives, Counts, Fault, SessionType
  <2>7. GhostType'
    <3>1. honest' \in BOOLEAN /\ UNCHANGED <<kills, clean>>
      BY <1>16, <2>4, Zenon DEF WrongByte, Receives, Fault
    <3>2. fails < MaxFails /\ fails' = fails + 1
      BY <1>16 DEF WrongByte, Fault
    <3> QED BY <1>1, <3>1, <3>2 DEF GhostType
  <2> QED BY <2>5, <2>6, <2>7, TypePartsNext
<1>17. CASE Noted(w)
  BY <1>1, <1>17, HandFacts
     DEF Noted, Checkpoint, DownloadTypeOK, Failures, Places, sessions, ghosts, InHand
<1>18. CASE Received(w)
  BY <1>1, <1>18, HandFacts
     DEF Received, LastReceipt, Checkpoint, DownloadTypeOK, Goes, Failures, Places, ghosts,
         InHand
<1>19. CASE Interrupted(w)
  BY <1>1, <1>19, HandFacts
     DEF Interrupted, LastReceipt, Checkpoint, Unlocked, DownloadTypeOK, Goes, Fails, Fault,
         Failures, Places, InHand
<1>20. CASE DigestWrong(w)
  BY <1>1, <1>20
     DEF DigestWrong, Unlocked, DownloadTypeOK, Goes, Fails, Failures, Places, ghosts
<1>21. CASE Proven(w)
  BY <1>1, <1>21
     DEF Proven, DownloadTypeOK, Goes, Failures, Places, ghosts
<1>22. CASE Linked(w)
  BY <1>1, <1>22
     DEF Linked, DownloadTypeOK, Goes, Failures, Places, ghosts
<1>23. CASE Unlinked(w)
  BY <1>1, <1>23
     DEF Unlinked, DownloadTypeOK, Goes, Failures, Places, ghosts
<1>24. CASE ReceiptDropped(w)
  BY <1>1, <1>24
     DEF ReceiptDropped, DownloadTypeOK, Goes, Failures, Places, ghosts
<1>25. CASE ArchiveChecked(w)
  <2>1. FolderType'
    BY <1>1, <1>25
       DEF ArchiveChecked, Unlocked, Verified, PutAside, Goes, Fails, Fault, FolderType
  <2>2. SessionType'
    <3>1. pc[w] # "idle" /\ UNCHANGED <<lock, got, tries, keep>>
      BY <1>25 DEF ArchiveChecked
    <3>2. \E place \in Places \ {"idle"} : pc' = [pc EXCEPT ![w] = place]
      BY <1>25 DEF ArchiveChecked, Goes, Fails, Places
    <3>3. code' = code \/ \E failure \in Failures : code' = [code EXCEPT ![w] = failure]
      BY <1>25 DEF ArchiveChecked, Fails, Failures
    <3> QED BY <1>1, <3>1, <3>2, <3>3, MovesType
  <2>3. GhostType'
    BY <1>1, <1>25
       DEF ArchiveChecked, Unlocked, Verified, PutAside, Goes, Fails, Fault, GhostType
  <2> QED BY <2>1, <2>2, <2>3, TypePartsNext
<1>26. CASE Retried(w)
  BY <1>1, <1>26
     DEF Retried, Again, DownloadTypeOK, Goes, Failures, Places, disk, ghosts
<1>27. CASE GivenUp(w)
  BY <1>1, <1>27
     DEF GivenUp, Again, Keeps, DownloadTypeOK, Goes, Fault, Failures, Places, disk
<1>28. CASE FlashBegins(w)
  <2>1. FolderType'
    BY <1>1, <1>28 DEF FlashBegins, FolderType
  <2>2. SessionType'
    BY <1>1, <1>28 DEF FlashBegins, Goes, Places, SessionType
  <2>3. GhostType'
    BY <1>1, <1>28 DEF FlashBegins, ghosts, GhostType
  <2> QED BY <2>1, <2>2, <2>3, TypePartsNext
<1>29. CASE FlashEnds(w)
  BY <1>1, <1>29
     DEF FlashEnds, Unlocked, DownloadTypeOK, Goes, Failures, Places, ghosts
<1>30. CASE FolderKept(w)
  BY <1>1, <1>30, OwnersAssumption
     DEF FolderKept, Resumable, Forgets, DownloadTypeOK, Goes, Counts, Failures, Places,
         disk, ghosts, Owners
<1>31. CASE FolderRemoved(w)
  <2>1. FolderType'
    <3>1. proven' \in BOOLEAN
      BY <1>31, Zenon DEF FolderRemoved, Emptied
    <3>2. /\ lock' = NoOne /\ folder' = "absent" /\ locks' = {} /\ part' = NoFile
          /\ synced' = 0 /\ receipt' = NoFile /\ final' = NoFile
      BY <1>31 DEF FolderRemoved, Emptied
    <3> QED BY <1>1, <3>1, <3>2 DEF FolderType, Owners
  <2>2. SessionType'
    BY <1>1, <1>31, OwnersAssumption
       DEF FolderRemoved, Resumable, Emptied, Forgets, Goes, Counts, Failures, Places,
           ghosts, SessionType
  <2>3. GhostType'
    BY <1>1, <1>31, OwnersAssumption
       DEF FolderRemoved, Resumable, Emptied, Forgets, Goes, Counts, ghosts, GhostType
  <2> QED BY <2>1, <2>2, <2>3, TypePartsNext
<1> QED
  BY <1>2, <1>3, <1>4, <1>5, <1>6, <1>7, <1>8, <1>9, <1>10, <1>11, <1>12, <1>13, <1>14,
     <1>15, <1>16, <1>17, <1>18, <1>19, <1>20, <1>21, <1>22, <1>23, <1>24, <1>25, <1>26,
     <1>27, <1>28, <1>29, <1>30, <1>31
     DEF DownloadSteps

LEMMA TypeNext ==
  ASSUME DownloadInv, DownloadStep PROVE DownloadTypeOK'
<1>1. /\ DownloadTypeOK /\ Size \in Nat /\ MaxTries \in Nat \ {0} /\ MaxKills \in Nat
      /\ <<>> \in Contents /\ FolderType /\ SessionType /\ GhostType
  BY SizeAssumption, TriesAssumption, ImageFacts, TypeParts DEF DownloadInv
<1>2. ASSUME NEW w \in Windows, Opens(w) PROVE DownloadTypeOK'
  <2>1. FolderType'
    BY <1>1, <1>2 DEF Opens, disk, FolderType, Owners
  <2>2. SessionType'
    BY <1>1, <1>2, OwnersAssumption DEF Opens, Goes, Places, SessionType
  <2>3. GhostType'
    BY <1>1, <1>2 DEF Opens, ghosts, GhostType
  <2> QED BY <2>1, <2>2, <2>3, TypePartsNext
<1>3. ASSUME NEW w \in Windows, DownloadKilled(w) PROVE DownloadTypeOK'
  <2>1. /\ part' \in Contents \cup {NoFile} /\ synced' \in 0 .. Size
        /\ folder' \in {"absent", "bare", "owned"} /\ locks' \subseteq {"list", "archive"}
        /\ receipt' \in Contents \cup {NoFile} /\ final' \in Contents \cup {NoFile}
        /\ proven' \in BOOLEAN
    <3>1. CASE pc[w] = "leave" /\ ~Resumable(w)
      <4>1. HalfRemoved
        BY <1>3, <3>1 DEF DownloadKilled
      <4>2. proven' \in BOOLEAN
        BY <1>1, <4>1, Zenon DEF HalfRemoved, FolderType
      <4> QED BY <1>1, <4>1, <4>2 DEF HalfRemoved, FolderType
    <3>2. CASE ~(pc[w] = "leave" /\ ~Resumable(w))
      <4>1. Shortened(w) /\ UNCHANGED <<folder, locks, receipt, final, proven>>
        BY <1>3, <3>2 DEF DownloadKilled
      <4>2. CASE pc[w] \in {"restart", "receive"}
        <5>1. PICK n \in synced .. Len(part) : part' = SubSeq(part, 1, n) /\ synced' = n
          BY <4>1, <4>2 DEF Shortened
        <5>2. InHand(w)
          BY <4>2 DEF InHand
        <5>3. part \in Contents /\ Len(part) \in 0 .. Size
          BY <5>2, HandFacts
        <5>4. n \in 0 .. Len(part) /\ n \in 0 .. Size
          BY <1>1, <5>1, <5>3 DEF FolderType
        <5>5. part' \in Contents
          BY <5>1, <5>3, <5>4, ContentLess
        <5> QED BY <1>1, <4>1, <5>1, <5>4, <5>5 DEF FolderType
      <4>3. CASE pc[w] \notin {"restart", "receive"}
        BY <1>1, <4>1, <4>3 DEF Shortened, FolderType
      <4> QED BY <4>2, <4>3
    <3> QED BY <3>1, <3>2
  <2>2. lock' = Dead /\ lock' \in Owners
    BY <1>3 DEF DownloadKilled, Owners
  <2>3. SessionType'
    <3>1. \A v \in Windows \ {w} : pc[v] = "idle"
      BY <1>3, OneSession DEF DownloadKilled
    <3> QED BY <1>1, <1>3, <2>2, <3>1, OwnersAssumption
            DEF DownloadKilled, Forgets, Goes, Counts, Places, SessionType
  <2>4. GhostType'
    <3>1. clean' \in BOOLEAN /\ UNCHANGED <<honest, fails>>
      BY <1>3, Zenon DEF DownloadKilled, Accident
    <3>2. kills < MaxKills /\ kills' = kills + 1
      BY <1>3 DEF DownloadKilled, Accident
    <3> QED BY <1>1, <3>1, <3>2 DEF GhostType
  <2> QED BY <2>1, <2>2, <2>3, <2>4, TypePartsNext DEF FolderType
<1>4. CASE Damaged
  <2>1. \A c \in Contents \cup {NoFile} : Garbled(c) \in Contents \cup {NoFile}
    BY ContentGarbled, Zenon DEF Garbled
  <2>2. FolderType'
    BY <1>1, <1>4, <2>1 DEF Damaged, FolderType
  <2>3. SessionType'
    BY <1>1, <1>4 DEF Damaged, sessions, SessionType
  <2>4. GhostType'
    <3>1. clean' \in BOOLEAN /\ honest' \in BOOLEAN /\ UNCHANGED fails
      BY <1>4, Zenon DEF Damaged, Accident
    <3>2. kills < MaxKills /\ kills' = kills + 1
      BY <1>4 DEF Damaged, Accident
    <3> QED BY <1>1, <3>1, <3>2 DEF GhostType
  <2> QED BY <2>2, <2>3, <2>4, TypePartsNext
<1>5. CASE LockReviewed
  BY <1>1, <1>5, OwnersAssumption
     DEF LockReviewed, disk, sessions, ghosts, DownloadTypeOK, Owners
<1>6. CASE FolderReviewed
  <2>1. proven' \in BOOLEAN
    BY <1>6, Zenon DEF FolderReviewed, Emptied
  <2>2. /\ folder' = "absent" /\ locks' = {} /\ part' = NoFile /\ synced' = 0
        /\ receipt' = NoFile /\ final' = NoFile /\ UNCHANGED <<lock, sessions, ghosts>>
    BY <1>6 DEF FolderReviewed, Emptied
  <2>3. FolderType'
    BY <1>1, <2>1, <2>2 DEF FolderType
  <2>4. SessionType' /\ GhostType'
    BY <1>1, <2>2 DEF sessions, ghosts, SessionType, GhostType
  <2> QED BY <2>3, <2>4, TypePartsNext
<1>7. CASE Accident /\ UNCHANGED <<lock, disk, sessions, honest, clean>>
  BY <1>1, <1>7 DEF Accident, disk, sessions, DownloadTypeOK
<1>8. CASE UNCHANGED downloadVars
  BY <1>1, <1>8 DEF downloadVars, disk, sessions, ghosts, DownloadTypeOK
<1> QED
  BY <1>2, <1>3, <1>4, <1>5, <1>6, <1>7, <1>8, TypeSteps DEF DownloadStep

-----------------------------------------------------------------------------
(* Bytes.                                                                  *)

LEMMA ByteSteps ==
  ASSUME DownloadInv, NEW w \in Windows, DownloadSteps(w) PROVE HandOK(w)' /\ BytesOK'
<1>1. /\ HandOK(w) /\ BytesOK /\ pc \in [Windows -> Places] /\ got \in [Windows -> Contents]
      /\ part \in Contents \cup {NoFile} /\ <<>> \in Contents /\ Len(<<>>) = 0
      /\ NoFile \notin Contents /\ Size \in Nat
  BY ImageFacts, NoFileAssumption, SizeAssumption DEF DownloadInv, DownloadTypeOK
<1>2. InOrder(<<>>) /\ InOrder(Image)
  BY ImageFacts, SizeAssumption DEF InOrder
<1>3. CASE \/ FolderMade(w) \/ FolderMarked(w) \/ FolderFound(w) \/ FolderForeign(w)
           \/ ListAsked(w) \/ ListChecked(w) \/ ArchiveLocked(w) \/ ArchiveFound(w)
           \/ RequestFails(w) \/ Interrupted(w) \/ ReceiptDropped(w) \/ Retried(w)
           \/ GivenUp(w) \/ FlashBegins(w) \/ FlashEnds(w) \/ FolderKept(w)
  <2>1. UNCHANGED <<part, final, honest>>
    BY <1>3
       DEF FolderMade, FolderMarked, FolderFound, FolderForeign, ListAsked, ListChecked,
           ArchiveLocked, ArchiveFound, RequestFails, Interrupted, ReceiptDropped, Retried,
           GivenUp, FlashBegins, FlashEnds, FolderKept, Locks, BreaksOff, disk, ghosts
  <2>2. pc'[w] \notin {"request", "restart", "receive", "received", "link"}
    BY <1>1, <1>3
       DEF FolderMade, FolderMarked, FolderFound, FolderForeign, ListAsked, ListChecked,
           ArchiveLocked, ArchiveFound, RequestFails, Interrupted, ReceiptDropped, Retried,
           GivenUp, FlashBegins, FlashEnds, FolderKept, Locks, BreaksOff, Goes, Fails, Forgets
  <2> QED BY <1>1, <2>1, <2>2 DEF HandOK, InHand, BytesOK
<1>4. CASE ManifestFetched(w)
  <2>1. UNCHANGED <<part, final, honest, clean>>
    BY <1>4 DEF ManifestFetched, BreaksOff, ghosts
  <2>2. \/ pc'[w] = "failed"
        \/ pc'[w] = "request" /\ got'[w] = <<>>
        \/ pc'[w] \in {"request", "received"} /\ got'[w] = part /\ part # NoFile
    BY <1>1, <1>4
       DEF ManifestFetched, BreaksOff, StartsAnew, Resumes, Goes, Counts, Fails
  <2> QED BY <1>1, <2>1, <2>2 DEF HandOK, InHand, BytesOK
<1>5. CASE Continued(w) \/ RestartNoted(w) \/ Noted(w) \/ Received(w)
  <2>1. UNCHANGED <<part, final, honest, clean, got>>
    BY <1>5 DEF Continued, RestartNoted, Noted, Received, sessions, ghosts
  <2>2. InHand(w) /\ pc'[w] \in {"receive", "received"}
    BY <1>1, <1>5
       DEF Continued, RestartNoted, Noted, Received, Goes, InHand, sessions
  <2> QED BY <1>1, <2>1, <2>2 DEF HandOK, InHand, BytesOK
<1>6. CASE Restarted(w)
  <2>1. /\ part' = <<>> /\ got'[w] = <<>> /\ UNCHANGED <<final, honest, clean>>
        /\ pc'[w] = "restart"
    BY <1>1, <1>6 DEF Restarted, Truncated, Counts, Goes, ghosts
  <2> QED BY <1>1, <1>2, <2>1 DEF HandOK, BytesOK
<1>7. CASE RightByte(w) \/ WrongByte(w)
  <2>1. PICK byte \in 0 .. Size : /\ Receives(w, byte)
                                  /\ honest' => honest /\ byte = Len(got[w]) + 1
    <3>1. CASE RightByte(w)
      <4>1. Len(got[w]) + 1 \in 0 .. Size
        BY <1>1, <3>1, ContentFacts DEF RightByte, Receives, Expects
      <4> QED BY <3>1, <4>1 DEF RightByte
    <3>2. CASE WrongByte(w)
      BY <1>1, <3>2 DEF WrongByte, Wrong
    <3> QED BY <1>7, <3>1, <3>2
  <2>2. InHand(w) /\ Len(got[w]) < Size
    BY <2>1 DEF Receives, Expects, InHand
  <2>3. /\ part \in Contents /\ got[w] \in Contents /\ Len(got[w]) = Len(part)
        /\ Len(part) \in Nat
    BY <2>2, HandFacts
  <2>4. /\ part' = Append(part, byte) /\ got'[w] = Append(got[w], byte)
        /\ UNCHANGED <<final, clean, pc>>
    BY <1>1, <2>1 DEF Receives, Counts
  <2>5. /\ part' \in Contents /\ Len(part') = Len(part) + 1 /\ Len(got'[w]) = Len(got[w]) + 1
        /\ \A i \in 1 .. Len(part) : part'[i] = part[i]
        /\ part'[Len(part) + 1] = byte
    BY <2>2, <2>3, <2>4, ContentMore
  <2>6. HandOK(w)'
    <3>1. pc[w] = "receive"
      BY <2>1 DEF Receives
    <3>2. (honest \/ clean)' => part' = got'[w]
      BY <1>1, <2>1, <2>2, <2>4 DEF HandOK
    <3> QED BY <2>3, <2>4, <2>5, <3>1, <3>2 DEF HandOK
  <2>7. ASSUME honest' PROVE InOrder(part')
    <3>1. InOrder(part) /\ byte = Len(part) + 1
      BY <1>1, <2>1, <2>3, <2>7 DEF BytesOK
    <3> QED BY <2>3, <2>5, <3>1 DEF InOrder
  <2> QED BY <1>1, <2>1, <2>4, <2>6, <2>7 DEF BytesOK
<1>8. CASE DigestWrong(w)
  BY <1>1, <1>8 DEF DigestWrong, Fails, Goes, HandOK, InHand, BytesOK, ghosts
<1>9. CASE Proven(w)
  <2>1. InHand(w) /\ got[w] = Image /\ pc'[w] = "link" /\ UNCHANGED <<part, final, honest>>
    BY <1>1, <1>9 DEF Proven, Goes, InHand, ghosts
  <2> QED BY <1>1, <2>1 DEF HandOK, InHand, BytesOK
<1>10. CASE Linked(w)
  BY <1>1, <1>10 DEF Linked, Goes, HandOK, InHand, BytesOK, ghosts
<1>11. CASE Unlinked(w)
  BY <1>1, <1>11 DEF Unlinked, Goes, HandOK, InHand, BytesOK, ghosts
<1>12. CASE ArchiveChecked(w)
  <2>1. UNCHANGED <<part, honest>> /\ (UNCHANGED final \/ final' = NoFile)
    BY <1>12 DEF ArchiveChecked, PutAside
  <2>2. pc'[w] \in {"flash", "failed"}
    BY <1>1, <1>12 DEF ArchiveChecked, Goes, Fails
  <2> QED BY <1>1, <2>1, <2>2 DEF HandOK, InHand, BytesOK
<1>13. CASE FolderRemoved(w)
  BY <1>1, <1>13 DEF FolderRemoved, Emptied, Forgets, Goes, HandOK, InHand, BytesOK, ghosts
<1> QED
  BY <1>3, <1>4, <1>5, <1>6, <1>7, <1>8, <1>9, <1>10, <1>11, <1>12, <1>13 DEF DownloadSteps

-----------------------------------------------------------------------------
(* Sessions.                                                               *)

LEMMA SessionSteps ==
  ASSUME DownloadInv, NEW w \in Windows, DownloadSteps(w) PROVE SessionOK(w)'
<1>1. /\ SessionOK(w) /\ FolderOK /\ HandOK(w)
      /\ pc \in [Windows -> Places] /\ got \in [Windows -> Contents]
      /\ code \in [Windows -> Failures \cup {"none"}] /\ keep \in [Windows -> BOOLEAN]
  BY DEF DownloadInv, DownloadTypeOK
<1>2. CASE FolderMade(w)
  BY <1>1, <1>2
     DEF FolderMade, Goes, SessionOK, CleanOK, FolderOK, Bare, Pair, Left
<1>3. CASE FolderMarked(w)
  BY <1>1, <1>3
     DEF FolderMarked, Goes, ghosts, SessionOK, CleanOK, Bare, Pair, Left
<1>4. CASE FolderFound(w)
  BY <1>1, <1>4
     DEF FolderFound, Goes, disk, ghosts, SessionOK, CleanOK, Bare, Pair, Left
<1>5. CASE FolderForeign(w)
  BY <1>1, <1>5
     DEF FolderForeign, Goes, disk, ghosts, SessionOK, CleanOK, Bare, Pair, Left
<1>6. CASE ListAsked(w)
  BY <1>1, <1>6
     DEF ListAsked, Locks, Goes, Fails, ghosts, SessionOK, CleanOK, Bare, Pair, Left
<1>7. CASE ListChecked(w)
  BY <1>1, <1>7
     DEF ListChecked, BreaksOff, Goes, Fails, Failures, ghosts, SessionOK, CleanOK, Bare,
         Pair, Left
<1>8. CASE ArchiveLocked(w)
  BY <1>1, <1>8
     DEF ArchiveLocked, Locks, Goes, Fails, ghosts, SessionOK, CleanOK, Bare, Pair, Left
<1>9. CASE ArchiveFound(w)
  BY <1>1, <1>9
     DEF ArchiveFound, BreaksOff, Unlocked, Verified, Goes, Fails, Failures, ghosts,
         SessionOK, CleanOK, Bare, Pair, Left
<1>10. CASE ManifestFetched(w)
  BY <1>1, <1>10
     DEF ManifestFetched, BreaksOff, Unlocked, StartsAnew, Resumes, ReceiptAgrees, Goes,
         Counts, Fails, Failures, ghosts, SessionOK, CleanOK, Bare, Pair, Left
<1>11. CASE Continued(w)
  BY <1>1, <1>11
     DEF Continued, Checkpoint, Goes, ghosts, SessionOK, CleanOK, Bare, Pair, Left, HandOK,
         InHand
<1>12. CASE Restarted(w)
  BY <1>1, <1>12
     DEF Restarted, Truncated, Goes, Counts, ghosts, SessionOK, CleanOK, Bare, Pair, Left
<1>13. CASE RestartNoted(w)
  BY <1>1, <1>13
     DEF RestartNoted, Checkpoint, Goes, ghosts, SessionOK, CleanOK, Bare, Pair, Left,
         HandOK, InHand
<1>14. CASE RequestFails(w)
  BY <1>1, <1>14
     DEF RequestFails, Unlocked, BreaksOff, Goes, Fails, Failures, SessionOK, CleanOK, Bare,
         Pair, Left
<1>15. CASE RightByte(w) \/ WrongByte(w)
  <2>1. PICK byte : Receives(w, byte)
    BY <1>15 DEF RightByte, WrongByte
  <2> QED BY <1>1, <2>1 DEF Receives, SessionOK, CleanOK, Pair, Left
<1>16. CASE Noted(w)
  BY <1>1, <1>16
     DEF Noted, Checkpoint, sessions, ghosts, SessionOK, CleanOK, Bare, Pair, Left, HandOK,
         InHand
<1>17. CASE Received(w)
  BY <1>1, <1>17
     DEF Received, LastReceipt, Checkpoint, Goes, ghosts, SessionOK, CleanOK, Bare, Pair,
         Left, HandOK, InHand
<1>18. CASE Interrupted(w)
  BY <1>1, <1>18
     DEF Interrupted, LastReceipt, Checkpoint, Unlocked, Goes, Fails, Failures, SessionOK,
         CleanOK, Bare, Pair, Left, HandOK, InHand
<1>19. CASE DigestWrong(w)
  BY <1>1, <1>19
     DEF DigestWrong, Unlocked, Goes, Fails, ghosts, SessionOK, CleanOK, Bare, Pair, Left
<1>20. CASE Proven(w)
  BY <1>1, <1>20
     DEF Proven, Goes, ghosts, SessionOK, CleanOK, Bare, Pair, Left
<1>21. CASE Linked(w)
  BY <1>1, <1>21
     DEF Linked, Goes, ghosts, SessionOK, CleanOK, Bare, Pair, Left
<1>22. CASE Unlinked(w)
  BY <1>1, <1>22
     DEF Unlinked, Goes, ghosts, SessionOK, CleanOK, Bare, Pair, Left
<1>23. CASE ReceiptDropped(w)
  BY <1>1, <1>23
     DEF ReceiptDropped, Goes, ghosts, SessionOK, CleanOK, Bare, Pair, Left
<1>24. CASE ArchiveChecked(w)
  BY <1>1, <1>24
     DEF ArchiveChecked, Unlocked, Verified, PutAside, Goes, Fails, SessionOK, CleanOK,
         Bare, Pair, Left
<1>25. CASE Retried(w)
  BY <1>1, <1>25
     DEF Retried, Again, Goes, disk, ghosts, SessionOK, CleanOK, Bare, Pair, Left
<1>26. CASE GivenUp(w)
  BY <1>1, <1>26
     DEF GivenUp, Again, Keeps, Goes, disk, SessionOK, CleanOK, Bare, Pair, Left
<1>27. CASE FlashBegins(w)
  BY <1>1, <1>27
     DEF FlashBegins, Verified, Goes, ghosts, SessionOK, CleanOK, Bare, Pair, Left
<1>28. CASE FlashEnds(w)
  BY <1>1, <1>28
     DEF FlashEnds, Unlocked, Goes, ghosts, SessionOK, CleanOK, Bare, Pair, Left
<1>29. CASE FolderKept(w)
  BY <1>1, <1>29
     DEF FolderKept, Forgets, Goes, Counts, disk, ghosts, SessionOK, CleanOK, Bare, Pair,
         Left
<1>30. CASE FolderRemoved(w)
  BY <1>1, <1>30
     DEF FolderRemoved, Emptied, Forgets, Goes, Counts, ghosts, SessionOK, CleanOK, Bare,
         Pair, Left
<1> QED
  BY <1>2, <1>3, <1>4, <1>5, <1>6, <1>7, <1>8, <1>9, <1>10, <1>11, <1>12, <1>13, <1>14,
     <1>15, <1>16, <1>17, <1>18, <1>19, <1>20, <1>21, <1>22, <1>23, <1>24, <1>25, <1>26,
     <1>27, <1>28, <1>29, <1>30
     DEF DownloadSteps

LEMMA FolderSteps ==
  ASSUME DownloadInv, NEW w \in Windows, DownloadSteps(w) PROVE FolderOK' /\ LeftToResume'
<1>1. /\ SessionOK(w) /\ FolderOK /\ pc[w] # "idle" /\ keep \in [Windows -> BOOLEAN]
  BY InSession DEF DownloadInv, DownloadTypeOK
<1>2. lock = w /\ lock # NoOne /\ lock # Dead
  BY <1>1, OneSession, OwnersAssumption
<1>3. CASE FolderMade(w)
  BY <1>2, <1>3 DEF FolderMade, FolderOK, LeftToResume
<1>4. CASE FolderMarked(w)
  BY <1>2, <1>4 DEF FolderMarked, FolderOK, LeftToResume
<1>5. CASE FolderForeign(w)
  BY <1>1, <1>5, OwnersAssumption
     DEF FolderForeign, disk, ghosts, SessionOK, CleanOK, FolderOK, Bare, LeftToResume
<1>6. CASE FolderKept(w)
  BY <1>1, <1>6, OwnersAssumption
     DEF FolderKept, Resumable, disk, ghosts, SessionOK, CleanOK, Left, FolderOK, Bare,
         LeftToResume
<1>7. CASE FolderRemoved(w)
  <2>1. proven' = FALSE
    BY <1>7, Zenon DEF FolderRemoved, Emptied
  <2>2. /\ folder' = "absent" /\ locks' = {} /\ part' = NoFile /\ synced' = 0
        /\ receipt' = NoFile /\ final' = NoFile /\ lock' = NoOne
    BY <1>7 DEF FolderRemoved, Emptied
  <2> QED BY <2>1, <2>2, OwnersAssumption DEF FolderOK, Bare, LeftToResume
<1>8. CASE FolderFound(w)
  BY <1>1, <1>2, <1>8 DEF FolderFound, disk, FolderOK, LeftToResume
<1>9. CASE \/ ListAsked(w) \/ ListChecked(w) \/ ArchiveLocked(w) \/ ArchiveFound(w)
           \/ ManifestFetched(w) \/ Continued(w) \/ Restarted(w) \/ RestartNoted(w)
           \/ RequestFails(w) \/ RightByte(w) \/ WrongByte(w)
  <2>1. pc[w] \notin {"idle", "enter", "marking"} /\ UNCHANGED <<lock, folder>>
    BY <1>9
       DEF ListAsked, ListChecked, ArchiveLocked, Locks, ArchiveFound, ManifestFetched,
           Continued, Restarted, RestartNoted, RequestFails, RightByte, WrongByte, Receives,
           BreaksOff
  <2> QED BY <1>1, <1>2, <2>1 DEF SessionOK, FolderOK, LeftToResume
<1>10. CASE \/ Noted(w) \/ Received(w) \/ Interrupted(w) \/ DigestWrong(w) \/ Proven(w)
            \/ Linked(w) \/ Unlinked(w) \/ ReceiptDropped(w) \/ ArchiveChecked(w)
            \/ Retried(w) \/ GivenUp(w) \/ FlashBegins(w) \/ FlashEnds(w)
  <2>1. pc[w] \notin {"idle", "enter", "marking"} /\ UNCHANGED <<lock, folder>>
    BY <1>10
       DEF Noted, Received, Interrupted, DigestWrong, Proven, Linked, Unlinked,
           ReceiptDropped, ArchiveChecked, Retried, GivenUp, FlashBegins, FlashEnds, disk
  <2> QED BY <1>1, <1>2, <2>1 DEF SessionOK, FolderOK, LeftToResume
<1> QED BY <1>3, <1>4, <1>5, <1>6, <1>7, <1>8, <1>9, <1>10 DEF DownloadSteps

\* An idle window has nothing in hand and keeps nothing.
LEMMA IdleOK ==
  ASSUME NEW w \in Windows, pc[w] = "idle", keep[w] = FALSE
  PROVE  HandOK(w) /\ SessionOK(w)
BY DEF HandOK, InHand, SessionOK, CleanOK

LEMMA IdleNext ==
  ASSUME NEW w \in Windows, pc'[w] = "idle", keep'[w] = FALSE
  PROVE  HandOK(w)' /\ SessionOK(w)'
BY DEF HandOK, InHand, SessionOK, CleanOK

LEMMA DownloadNext ==
  ASSUME DownloadInv, DownloadStep PROVE DownloadInv'
<1>1. /\ DownloadTypeOK /\ BytesOK /\ FolderOK /\ LeftToResume
      /\ \A v \in Windows : HandOK(v) /\ SessionOK(v)
  BY DEF DownloadInv
<1>2. /\ pc \in [Windows -> Places] /\ got \in [Windows -> Contents]
      /\ keep \in [Windows -> BOOLEAN] /\ \A v \in Windows : pc[v] # "idle" <=> lock = v
  BY <1>1 DEF DownloadTypeOK
<1>3. DownloadTypeOK'
  BY TypeNext
<1>4. ASSUME NEW w \in Windows, DownloadSteps(w) PROVE DownloadInv'
  <2>1. /\ HandOK(w)' /\ SessionOK(w)' /\ BytesOK' /\ FolderOK' /\ LeftToResume'
    BY <1>4, ByteSteps, SessionSteps, FolderSteps
  <2>2. ASSUME NEW v \in Windows \ {w} PROVE pc'[v] = "idle" /\ keep'[v] = FALSE
    <3>1. pc[w] # "idle"
      BY <1>4, InSession
    <3>2. pc[v] = "idle" /\ keep[v] = FALSE
      BY <3>1, OneSession
    <3>3. pc'[v] = pc[v] /\ keep'[v] = keep[v]
      BY <1>2, <1>4
         DEF DownloadSteps, FolderMade, FolderMarked, FolderFound,
             FolderForeign, ListAsked, ListChecked, ArchiveLocked, Locks, ArchiveFound,
             ManifestFetched, Continued, Restarted, RestartNoted, RequestFails, RightByte,
             WrongByte, Receives, Noted, Received, Interrupted, DigestWrong, Proven, Linked,
             Unlinked, ReceiptDropped, ArchiveChecked, Retried, GivenUp, FlashBegins, FlashEnds,
             FolderKept, FolderRemoved, BreaksOff, Resumes, StartsAnew, Goes, Fails, Forgets,
             sessions
    <3> QED BY <3>2, <3>3
  <2>3. \A v \in Windows : HandOK(v)' /\ SessionOK(v)'
    BY <2>1, <2>2, IdleNext
  <2> QED BY <1>3, <2>1, <2>3 DEF DownloadInv
<1>5. ASSUME NEW w \in Windows, Opens(w) PROVE DownloadInv'
  <2>1. /\ lock' = w /\ pc'[w] = "enter" /\ keep'[w] = FALSE
        /\ UNCHANGED <<folder, locks, part, synced, receipt, final, proven, honest, clean>>
        /\ \A v \in Windows \ {w} : pc'[v] = "idle" /\ keep'[v] = FALSE
    <3>1. pc[w] = "idle" /\ lock = NoOne
      BY <1>5 DEF Opens
    <3>2. \A v \in Windows : pc[v] = "idle" /\ keep[v] = FALSE
      BY <1>1, <1>2, <3>1, OwnersAssumption DEF SessionOK
    <3> QED BY <1>2, <1>5, <3>2 DEF Opens, Goes, disk, ghosts
  <2>2. HandOK(w)' /\ SessionOK(w)'
    <3>1. clean /\ folder # "absent" => folder = "owned" /\ Left
      BY <1>1, <1>5 DEF Opens, LeftToResume, Left
    <3> QED BY <2>1, <3>1 DEF HandOK, InHand, SessionOK, CleanOK, Left
  <2>3. BytesOK' /\ FolderOK' /\ LeftToResume'
    BY <1>1, <2>1, OwnersAssumption DEF BytesOK, FolderOK, Bare, LeftToResume
  <2>4. \A v \in Windows : HandOK(v)' /\ SessionOK(v)'
    BY <2>1, <2>2, IdleNext
  <2> QED BY <1>3, <2>3, <2>4 DEF DownloadInv
<1>6. ASSUME NEW w \in Windows, DownloadKilled(w) PROVE DownloadInv'
  <2>1. \A v \in Windows : pc'[v] = "idle" /\ keep'[v] = FALSE
    <3>1. \A v \in Windows \ {w} : pc[v] = "idle" /\ keep[v] = FALSE
      BY <1>6, OneSession DEF DownloadKilled
    <3> QED BY <1>2, <1>6, <3>1 DEF DownloadKilled, Forgets, Goes
  <2>2. lock' = Dead /\ ~clean' /\ honest' = honest
    BY <1>6, Zenon DEF DownloadKilled
  <2>3. BytesOK'
    <3>1. CASE pc[w] = "leave" /\ ~Resumable(w)
      <4>1. part' \in {part, NoFile} /\ final' \in {final, NoFile}
        BY <1>6, <3>1 DEF DownloadKilled, HalfRemoved
      <4> QED BY <1>1, <2>2, <4>1 DEF BytesOK
    <3>2. CASE ~(pc[w] = "leave" /\ ~Resumable(w))
      <4>1. Shortened(w) /\ UNCHANGED final
        BY <1>6, <3>2 DEF DownloadKilled
      <4>2. CASE pc[w] \in {"restart", "receive"}
        <5>1. PICK n \in synced .. Len(part) : part' = SubSeq(part, 1, n)
          BY <4>1, <4>2 DEF Shortened
        <5>2. part \in Contents /\ part # NoFile
          BY <4>2, HandFacts DEF InHand
        <5>3. n \in 0 .. Len(part) /\ Len(part) \in Nat
          BY <1>1, <5>1, <5>2, ContentFacts, SizeAssumption DEF DownloadTypeOK
        <5>4. Len(part') = n /\ \A i \in 1 .. n : part'[i] = part[i]
          BY <5>1, <5>2, <5>3, ContentLess
        <5>5. InOrder(part) => InOrder(part')
          BY <5>3, <5>4 DEF InOrder
        <5> QED BY <1>1, <2>2, <4>1, <5>2, <5>5 DEF BytesOK
      <4>3. CASE pc[w] \notin {"restart", "receive"}
        BY <1>1, <2>2, <4>1, <4>3 DEF Shortened, BytesOK
      <4> QED BY <4>2, <4>3
    <3> QED BY <3>1, <3>2
  <2>4. FolderOK'
    <3>1. folder' = "absent" => folder = "absent"
      BY <1>6 DEF DownloadKilled, HalfRemoved
    <3>2. folder = "absent" => Bare /\ pc[w] \in {"idle", "enter", "marking"}
      BY <1>1 DEF FolderOK, SessionOK
    <3>3. folder = "absent" => UNCHANGED <<locks, part, synced, receipt, final, proven>>
      BY <1>6, <3>2 DEF DownloadKilled, Shortened
    <3> QED BY <2>2, <3>1, <3>2, <3>3 DEF FolderOK, Bare
  <2>5. LeftToResume'
    BY <2>2 DEF LeftToResume
  <2> QED BY <1>3, <2>1, <2>3, <2>4, <2>5, IdleNext DEF DownloadInv
<1>7. CASE Damaged
  <2>1. ~honest' /\ ~clean' /\ part' = Garbled(part)
        /\ UNCHANGED <<lock, folder, locks, synced, receipt, proven, pc, got, code, keep>>
    BY <1>7, Zenon DEF Damaged, sessions
  <2>2. /\ part \in Contents => part' \in Contents /\ Len(part') = Len(part)
        /\ part = NoFile => part' = NoFile
    BY <2>1, ContentGarbled DEF Garbled
  <2>3. \A v \in Windows : HandOK(v)' /\ SessionOK(v)'
    BY <1>1, <2>1, <2>2 DEF HandOK, InHand, SessionOK
  <2>4. BytesOK' /\ LeftToResume'
    BY <2>1 DEF BytesOK, LeftToResume
  <2>5. FolderOK'
    <3>1. final = NoFile => final' = NoFile
      BY <1>7 DEF Damaged, Garbled
    <3> QED BY <1>1, <2>1, <2>2, <3>1 DEF FolderOK, Bare
  <2> QED BY <1>3, <2>3, <2>4, <2>5 DEF DownloadInv
<1>8. CASE LockReviewed
  <2>1. lock = Dead /\ ~clean /\ UNCHANGED <<disk, sessions, ghosts>> /\ lock' = NoOne
    BY <1>1, <1>8 DEF LockReviewed, FolderOK
  <2>2. \A v \in Windows : HandOK(v)' /\ SessionOK(v)'
    BY <1>1, <2>1 DEF disk, sessions, ghosts, HandOK, InHand, SessionOK, CleanOK, Bare, Pair, Left
  <2>3. BytesOK' /\ FolderOK' /\ LeftToResume'
    BY <1>1, <2>1, OwnersAssumption DEF disk, ghosts, BytesOK, FolderOK, Bare, LeftToResume
  <2> QED BY <1>3, <2>2, <2>3 DEF DownloadInv
<1>9. CASE FolderReviewed
  <2>1. proven' = FALSE
    BY <1>9, Zenon DEF FolderReviewed, Emptied
  <2>2. /\ folder' = "absent" /\ locks' = {} /\ part' = NoFile /\ synced' = 0
        /\ receipt' = NoFile /\ final' = NoFile /\ lock = NoOne
        /\ UNCHANGED <<lock, sessions, ghosts>>
    BY <1>9 DEF FolderReviewed, Emptied
  <2>3. \A v \in Windows : pc'[v] = "idle" /\ keep'[v] = FALSE
    BY <1>1, <1>2, <2>2, OwnersAssumption DEF SessionOK, sessions
  <2>4. BytesOK' /\ FolderOK' /\ LeftToResume'
    BY <2>1, <2>2, OwnersAssumption DEF BytesOK, FolderOK, Bare, LeftToResume
  <2> QED BY <1>3, <2>3, <2>4, IdleNext DEF DownloadInv
<1>10. CASE (Accident /\ UNCHANGED <<lock, disk, sessions, honest, clean>>)
            \/ UNCHANGED downloadVars
  <2>1. UNCHANGED <<lock, disk, sessions, honest, clean>>
    BY <1>10 DEF downloadVars, ghosts
  <2>2. \A v \in Windows : HandOK(v)' /\ SessionOK(v)'
    BY <1>1, <2>1 DEF disk, sessions, HandOK, InHand, SessionOK, CleanOK, Bare, Pair, Left
  <2>3. BytesOK' /\ FolderOK' /\ LeftToResume'
    BY <1>1, <2>1 DEF disk, BytesOK, FolderOK, Bare, LeftToResume
  <2> QED BY <1>3, <2>2, <2>3 DEF DownloadInv
<1> QED
  BY <1>4, <1>5, <1>6, <1>7, <1>8, <1>9, <1>10 DEF DownloadStep

LEMMA DownloadInvariant == Spec => []DownloadInv
<1>1. DownloadInv /\ [Next]_vars => DownloadInv'
  BY DownloadStepsOnly, DownloadNext
<1> QED BY <1>1, DownloadStart, PTL DEF Spec

\* The types of the list and of the folder.
THEOREM HostedTypes == Spec => []TypeOK
<1>1. ListInv /\ DownloadInv => TypeOK
  BY DEF ListInv, DownloadInv, TypeOK
<1> QED BY <1>1, ListInvariant, DownloadInvariant, PTL

\* _download: while the server and the disk are honest, however often transfers
\* are cut off, killed, restarted or continued, a partial file is a beginning of
\* the image and an archive is the image.
THEOREM BytesStayInPlace == Spec => []BytesInPlace
<1>1. DownloadInv => BytesInPlace
  BY OrderFacts DEF DownloadInv, DownloadTypeOK, BytesOK, BytesInPlace
<1> QED BY <1>1, DownloadInvariant, PTL

\* flash_download_session: a session that ends leaves no folder, or one with
\* just a partial file and the receipt for it, unless it was killed.
THEOREM SessionsLeaveToResume == Spec => []LeftToResume
<1>1. DownloadInv => LeftToResume
  BY DEF DownloadInv
<1> QED BY <1>1, DownloadInvariant, PTL
=============================================================================
