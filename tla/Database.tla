------------------------------ MODULE Database ------------------------------
(***************************************************************************)
(* visualizer/database.py: the list of the most queried urls.  A push is   *)
(* one step: the object belongs to the thread of the serial reader.        *)
(***************************************************************************)
EXTENDS Integers, Sequences

CONSTANTS
    Urls,
    Counts,
    top_n_width    \* [10]

ASSUME DatabaseAssumption == Counts \subseteq Nat /\ top_n_width \in Nat \ {0}

VARIABLES
    most_accessed, \* the list of [url, count]
    bottom_top_n,
    latest,        \* what was pushed last for each url.  The code has dns_dict
                   \* for it, and never fills it: no step depends on it
    totals         \* no url was pushed with less than before: counts of queries,
                   \* and not the random numbers of dns_sim.ino

dbVars == <<most_accessed, bottom_top_n, latest, totals>>

Entry == [url : Urls, count : Counts]

DbInit ==
    /\ most_accessed = <<>> /\ bottom_top_n = 0
    /\ latest = [u \in Urls |-> 0] /\ totals = TRUE

(* sort(key = count, reverse = True), which keeps equal counts in order:   *)
(* what it makes of s, as the only element of a set.                       *)
Before(s, i, j) == s[i].count > s[j].count \/ (s[i].count = s[j].count /\ i < j)
Orders(s) ==
    {p \in [DOMAIN s -> DOMAIN s] :
        \A i, j \in DOMAIN s : i < j => Before(s, p[i], p[j])}
Sorted(s) == {[i \in DOMAIN s |-> s[p[i]]] : p \in Orders(s)}

Listed(url) == \E i \in DOMAIN most_accessed : most_accessed[i].url = url

(* The list without its entry for url.  (The loop removes from the list it *)
(* iterates and misses the entry after the removed one, which is not for   *)
(* url as long as no url is listed twice.)                                 *)
Without(url) ==
    LET i == CHOOSE k \in DOMAIN most_accessed : most_accessed[k].url = url
    IN  [k \in 1 .. Len(most_accessed) - 1 |->
            IF k < i THEN most_accessed[k] ELSE most_accessed[k + 1]]

CutOff(s) == IF Len(s) > top_n_width THEN SubSeq(s, 1, Len(s) - 1) ELSE s

(* Mutant: the entry that is there is left there.                          *)
MutRefresh(entry) ==
    /\ Listed(entry.url)
    /\ most_accessed' \in Sorted(Append(most_accessed, entry))
    /\ bottom_top_n' = most_accessed'[Len(most_accessed')].count

Refresh(entry) ==
    /\ Listed(entry.url)
    /\ most_accessed' \in Sorted(Append(Without(entry.url), entry))
    /\ bottom_top_n' = most_accessed'[Len(most_accessed')].count

(* Mutant: the oldest entry goes instead of the least one.                 *)
MutInsert(entry) ==
    /\ ~Listed(entry.url)
    /\ most_accessed' \in
          Sorted(Append(IF Len(most_accessed) = top_n_width THEN Tail(most_accessed)
                        ELSE most_accessed, entry))
    /\ bottom_top_n' = most_accessed'[Len(most_accessed')].count

Insert(entry) ==
    /\ ~Listed(entry.url)
    /\ most_accessed' \in {CutOff(s) : s \in Sorted(Append(most_accessed, entry))}
    /\ bottom_top_n' = most_accessed'[Len(most_accessed')].count

Push(url, count) ==
    /\ IF count > bottom_top_n \/ Len(most_accessed) <= top_n_width
         THEN Refresh([url |-> url, count |-> count]) \/ Insert([url |-> url, count |-> count])
         ELSE UNCHANGED <<most_accessed, bottom_top_n>>
    /\ latest' = [latest EXCEPT ![url] = count]
    /\ totals' = (totals /\ count >= latest[url])

DbNext == \E url \in Urls, count \in Counts : Push(url, count)
DbSpec == DbInit /\ [][DbNext]_dbVars

-----------------------------------------------------------------------------
(* The list is sorted, no url is in it twice, it is never longer than the  *)
(* plot is wide, and bottom_top_n is its least count.                      *)

ListTyped    == most_accessed \in Seq(Entry) /\ Len(most_accessed) <= top_n_width
ListSorted   ==
    \A i, j \in DOMAIN most_accessed :
       i < j => most_accessed[i].count >= most_accessed[j].count
UrlsOnce     ==
    \A i, j \in DOMAIN most_accessed :
       most_accessed[i].url = most_accessed[j].url => i = j
BottomIsLast ==
    bottom_top_n = IF most_accessed = <<>> THEN 0
                   ELSE most_accessed[Len(most_accessed)].count

DatabaseInv == ListTyped /\ ListSorted /\ UrlsOnce /\ BottomIsLast

(* An entry has the last count of its url.  As long as the counts that     *)
(* come in are totals, the list is the top: an url that is not in it,      *)
(* perhaps cut off before, has no more than the least entry.               *)
EntriesLatest ==
    \A i \in DOMAIN most_accessed : most_accessed[i].count = latest[most_accessed[i].url]
OthersBelow ==
    \A u \in Urls : ~Listed(u) =>
        latest[u] <= bottom_top_n /\ (latest[u] > 0 => Len(most_accessed) = top_n_width)
TheTop == EntriesLatest /\ (totals => OthersBelow)

=============================================================================
