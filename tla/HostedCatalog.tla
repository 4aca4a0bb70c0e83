---------------------------- MODULE HostedCatalog ----------------------------
(***************************************************************************)
(* The list of hosted images (fetch_catalog and cached_catalog of          *)
(* jibo_hosted_updates.py) and its cache on disk, which the windows of one *)
(* computer share.  A list has the sequence number of its issue.  A fetch  *)
(* holds a lock file while it stores the list and then the number as the   *)
(* watermark below which no list is taken.  When the server cannot be      *)
(* reached the cached list is shown, read without the lock.                *)
(***************************************************************************)
EXTENDS Naturals, LockFiles

CONSTANT MaxIssues  \* bound: issues of the list

ASSUME IssuesAssumption == MaxIssues \in Nat \ {0}

VARIABLES
  issued,    \* the last issue the server has
  index,     \* the issue of the cached list, 0 when there is none
  mark,      \* the stored watermark, 0 when there is none
  listLock,  \* who holds the lock file of the cache
  at,        \* where the fetch of window w is
  read,      \* the issue it has in hand
  list,      \* the issue window w shows, 0 when it shows none
  newest     \* the newest issue that any window has fetched and shown

catalogVars == <<issued, index, mark, listLock, at, read, list, newest>>

NoList == 0
Issues == NoList .. MaxIssues

-----------------------------------------------------------------------------
(* Mutations, each a slip the code could have made (see PROJECT.json).     *)
AnyIssue(issue) == TRUE                       \* the watermark is not compared
MarkStoredFirst(w) ==                         \* the watermark before the list
  /\ at[w] = "storing"
  /\ mark' = read[w]
  /\ at' = [at EXCEPT ![w] = "marking"]
  /\ UNCHANGED <<issued, index, listLock, read, list, newest>>

-----------------------------------------------------------------------------
CatalogInit ==
  /\ issued = 1 /\ index = NoList /\ mark = NoList
  /\ listLock = NoOne
  /\ at = [w \in Windows |-> "out"]
  /\ read = [w \in Windows |-> NoList] /\ list = [w \in Windows |-> NoList]
  /\ newest = NoList

(* A list issued before the watermark is refused as rolled back.           *)
NotBefore(issue) == issue >= mark

Turns(w, place) == at' = [at EXCEPT ![w] = place]
Takes(w, issue) == read' = [read EXCEPT ![w] = issue]
Shows(w, issue) == Turns(w, "out") /\ list' = [list EXCEPT ![w] = issue] /\ Takes(w, NoList)

Fetches(w) ==
  /\ at[w] = "out" /\ listLock = NoOne
  /\ listLock' = w
  /\ Turns(w, "asking")
  /\ UNCHANGED <<issued, index, mark, read, list, newest>>

(* Another window, or one that was killed, holds the lock: no list.        *)
LockedOut(w) ==
  /\ at[w] = "out" /\ listLock # NoOne
  /\ Shows(w, NoList)
  /\ UNCHANGED <<issued, index, mark, listLock, newest>>

(* The server, or a cache before it, may still have an older issue.        *)
Answered(w) ==
  /\ at[w] = "asking"
  /\ \E issue \in 1 .. issued : NotBefore(issue) /\ Takes(w, issue)
  /\ Turns(w, "storing")
  /\ UNCHANGED <<issued, index, mark, listLock, list, newest>>

RolledBack(w) ==
  /\ at[w] = "asking"
  /\ \E issue \in 1 .. issued : ~NotBefore(issue)
  /\ listLock' = NoOne
  /\ Shows(w, NoList)
  /\ UNCHANGED <<issued, index, mark, newest>>

ListStored(w) ==
  /\ at[w] = "storing"
  /\ index' = read[w]
  /\ Turns(w, "marking")
  /\ UNCHANGED <<issued, mark, listLock, read, list, newest>>

MarkStored(w) ==
  /\ at[w] = "marking"
  /\ mark' = read[w]
  /\ listLock' = NoOne
  /\ Shows(w, read[w])
  /\ newest' = IF read[w] > newest THEN read[w] ELSE newest
  /\ UNCHANGED <<issued, index>>

(* The server cannot be reached, or the check was cancelled.               *)
Offline(w) ==
  /\ at[w] = "asking"
  /\ listLock' = NoOne
  /\ Turns(w, "reading") /\ Takes(w, index)
  /\ UNCHANGED <<issued, index, mark, list, newest>>

CacheShown(w) ==
  /\ at[w] = "reading"
  /\ Shows(w, IF NotBefore(read[w]) THEN read[w] ELSE NoList)
  /\ UNCHANGED <<issued, index, mark, listLock, newest>>

CatalogSteps(w) ==
  \/ Fetches(w) \/ LockedOut(w) \/ Answered(w) \/ RolledBack(w)
  \/ ListStored(w) \/ MarkStored(w) \/ Offline(w) \/ CacheShown(w)

Published ==
  /\ issued < MaxIssues /\ issued' = issued + 1
  /\ UNCHANGED <<index, mark, listLock, at, read, list, newest>>

(* A killed toolkit leaves its lock file, which a user may delete.         *)
CatalogKilled(w) ==
  /\ listLock' = LeftBy(w, listLock)
  /\ Shows(w, NoList)
  /\ UNCHANGED <<issued, index, mark, newest>>

ListLockReviewed ==
  /\ listLock = Dead /\ listLock' = NoOne
  /\ UNCHANGED <<issued, index, mark, at, read, list, newest>>

-----------------------------------------------------------------------------
CatalogTypeOK ==
  /\ issued \in 1 .. MaxIssues
  /\ index \in Issues /\ mark \in Issues /\ newest \in Issues
  /\ listLock \in Owners
  /\ at \in [Windows -> {"out", "asking", "storing", "marking", "reading"}]
  /\ read \in [Windows -> Issues] /\ list \in [Windows -> Issues]

(* However fetches are cut short, the list in the cache is never older     *)
(* than the watermark: it can be shown when the server is out of reach.    *)
CacheUsable == index >= mark

(* A list that is fetched is never older than one that any window has      *)
(* fetched and shown before.                                               *)
FetchedInOrder ==
  [][\A w \in Windows :
       at[w] = "marking" /\ list'[w] # list[w] /\ list'[w] # NoList => list'[w] >= newest
    ]_catalogVars
=============================================================================
