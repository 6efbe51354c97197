----------------------------- MODULE RestSource -----------------------------
(* RestSource.read of fflow/sources/rest.py: pages of an incremental stream  *)
(* are fetched one request at a time while the records behind the API        *)
(* change, and the largest cursor seen becomes the next run's filter.        *)
(*                                                                           *)
(* The API is external.  It answers in the order of the cursor field, and a  *)
(* record that is created or updated goes to the end of that order.  Several *)
(* changes may carry the same cursor.  The filter includes the cursor it is  *)
(* given ("updated_since").  Page and offset requests address positions, a   *)
(* next link or a response cursor the record to go on after.                 *)
(*                                                                           *)
(* Changes are numbered, and a record's content is the number of its last    *)
(* change.                                                                   *)
EXTENDS Naturals, FiniteSets, Sequences

CONSTANTS
    Records,      \* records of the endpoint
    Setups,       \* stream configurations: paginator, max_pages, and what may
                  \* happen to the records while they are read
    PageSize,     \* page_size or limit, and the API's own page
    MaxChanges,   \* bound: changes of the records
    MaxFaults     \* bound: failed steps, and links that lead back

ASSUME RestAssumption ==
    /\ IsFiniteSet(Records)
    /\ Setups \subseteq [paginator : {"single_page", "page_number", "offset",
                                      "link", "cursor"},
                         max_pages : Nat \ {0},
                         meanwhile : {"nothing", "creation", "update"}]
    /\ PageSize \in Nat \ {0}
    /\ MaxChanges \in Nat /\ MaxFaults \in Nat

VARIABLES
    cfg,            \* the stream's configuration
    change,         \* change[i]: the last change of record i, 0 if there is none
    stamp,          \* stamp[n]: the cursor value of change n
    pc,             \* where the run is
    current_cursor, \* state["cursor_value"] when the read began, 0 if absent
    max_cursor,     \* max_cursor
    request,        \* page, offset or token of the next request
    pages_fetched,  \* pages_fetched
    seen,           \* seen_urls, seen_cursors
    got,            \* got[i]: the content of record i this run has yielded
    landed,         \* landed[i]: its content at the destination
    cursor_value,   \* the stored watermark
    asOf,           \* history: the last change before the read began
    cut,            \* history: the read stopped before the API's last page
    faults          \* faults so far

api == <<change, stamp>>
reading == <<current_cursor, max_cursor, request, pages_fetched, seen, got, asOf, cut>>
stored == <<landed, cursor_value>>
vars == <<cfg, api, pc, reading, stored, faults>>

-----------------------------------------------------------------------------
(* The API.                                                                  *)

Nothing == [i \in Records |-> 0]
Last == IF stamp = <<>> THEN 0 ELSE stamp[Len(stamp)]
Cursor(i) == stamp[change[i]]

(* The records a request with the filter matches, in the order of change.    *)
Matching == {i \in Records : change[i] # 0 /\ Cursor(i) >= current_cursor}
FirstOf(S, n) == {i \in S : Cardinality({j \in S : change[j] < change[i]}) < n}

Keyset == cfg.paginator \in {"link", "cursor"}

(* What is left from the requested position on, and the page answered.       *)
Remaining ==
    IF Keyset THEN {i \in Matching : change[i] > request}
    ELSE Matching \ FirstOf(Matching, IF cfg.paginator = "page_number"
                                      THEN request * PageSize ELSE request)
Page == FirstOf(Remaining, PageSize)

(* The token of the page after this one: its last record.                    *)
NextToken == CHOOSE n \in {change[i] : i \in Page} : \A i \in Page : change[i] <= n

(* A record is created or updated, with the cursor of the change before or a *)
(* later one.                                                                *)
Change(i, c) ==
    /\ Len(stamp) < MaxChanges
    /\ \/ pc = "idle"
       \/ cfg.meanwhile = "creation" /\ change[i] = 0
       \/ cfg.meanwhile = "update"
    /\ c \in {Last, Last + 1} \ {0}
    /\ stamp' = Append(stamp, c)
    /\ change' = [change EXCEPT ![i] = Len(stamp) + 1]
    /\ UNCHANGED <<cfg, pc, reading, stored, faults>>

-----------------------------------------------------------------------------
(* read.                                                                     *)

Init ==
    /\ cfg \in Setups
    /\ change = Nothing /\ stamp = <<>>
    /\ pc = "idle"
    /\ current_cursor = 0 /\ max_cursor = 0
    /\ request = 0 /\ pages_fetched = 0 /\ seen = {}
    /\ got = Nothing
    /\ landed = Nothing /\ cursor_value = 0
    /\ asOf = 0 /\ cut = FALSE
    /\ faults = 0

(* The generator and its variables are gone.                                 *)
Over ==
    /\ pc' = "idle"
    /\ current_cursor' = 0 /\ max_cursor' = 0
    /\ request' = 0 /\ pages_fetched' = 0 /\ seen' = {}
    /\ got' = Nothing
    /\ asOf' = 0 /\ cut' = FALSE

Begin ==
    /\ pc = "idle"
    /\ pc' = "read"
    /\ current_cursor' = cursor_value /\ max_cursor' = cursor_value
    /\ request' = 0 /\ pages_fetched' = 0 /\ seen' = {}
    /\ got' = Nothing
    /\ asOf' = Len(stamp) /\ cut' = FALSE
    /\ UNCHANGED <<cfg, api, stored, faults>>

(* max_cursor after the records of a page.                                   *)
Largest ==
    LET cursors == {Cursor(i) : i \in Page} \union {max_cursor} IN
    CHOOSE c \in cursors : \A d \in cursors : d <= c
FurthestAndNext == Largest + 1
Furthest == Largest

(* The records of the page are yielded.                                      *)
Yield ==
    /\ got' = [i \in Records |-> IF i \in Page THEN change[i] ELSE got[i]]
    /\ max_cursor' = Furthest

(* The generator goes on with another request, or is exhausted.              *)
GoOn(next) ==
    /\ request' = next
    /\ pages_fetched' = pages_fetched + 1
    /\ UNCHANGED <<pc, cut>>
Finish(early) ==
    /\ pc' = "commit"
    /\ cut' = early
    /\ UNCHANGED <<request, pages_fetched>>

MayFetchOneMore == pages_fetched <= cfg.max_pages
MayFetch == pages_fetched < cfg.max_pages

Fetching(paginators) ==
    /\ pc = "read" /\ cfg.paginator \in paginators
    /\ MayFetch
    /\ UNCHANGED <<cfg, api, current_cursor, asOf, stored>>

FetchSinglePage ==
    /\ Fetching({"single_page"})
    /\ Yield
    /\ Finish(Page # Remaining)
    /\ UNCHANGED <<seen, faults>>

FetchPageNumber ==
    /\ Fetching({"page_number"})
    /\ Yield
    /\ IF Page = {} THEN Finish(FALSE) ELSE GoOn(request + 1)
    /\ UNCHANGED <<seen, faults>>

(* An offset read ends at an empty or a short page.                          *)
LastPageAnyway == Cardinality(Page) <= PageSize
LastPage == Cardinality(Page) < PageSize

FetchOffset ==
    /\ Fetching({"offset"})
    /\ Yield
    /\ IF LastPage THEN Finish(FALSE) ELSE GoOn(request + Cardinality(Page))
    /\ UNCHANGED <<seen, faults>>

(* A read by links or cursors ends when the response names no next one ...   *)
FetchToken ==
    /\ Fetching({"link", "cursor"})
    /\ Yield
    /\ seen' = seen \union {request}
    /\ IF Page = Remaining THEN Finish(FALSE) ELSE GoOn(NextToken)
    /\ UNCHANGED faults

(* ... or one that it has followed already.                                  *)
FetchLoop ==
    /\ faults < MaxFaults
    /\ Fetching({"link", "cursor"})
    /\ Yield
    /\ seen' = seen \union {request}
    /\ \E back \in seen' : back # 0 \/ cfg.paginator = "link"
    /\ Finish(Page # Remaining)
    /\ faults' = faults + 1

StopAtMaxPages ==
    /\ pc = "read" /\ ~MayFetch
    /\ Finish(TRUE)
    /\ UNCHANGED <<cfg, api, current_cursor, max_cursor, seen, got, asOf, stored, faults>>

-----------------------------------------------------------------------------
(* The rest of the run: the rows are committed, then the state is stored.    *)

Commit ==
    /\ pc = "commit"
    /\ landed' = [i \in Records |-> IF got[i] # 0 THEN got[i] ELSE landed[i]]
    /\ pc' = "store"
    /\ UNCHANGED <<cfg, api, reading, cursor_value, faults>>

Store ==
    /\ pc = "store"
    /\ cursor_value' = max_cursor
    /\ Over
    /\ UNCHANGED <<cfg, api, landed, faults>>

(* A request, the extraction of its records, commit or set raises.           *)
Fails ==
    /\ pc # "idle" /\ faults < MaxFaults
    /\ Over
    /\ faults' = faults + 1
    /\ UNCHANGED <<cfg, api, stored>>

Step ==
    \/ FetchSinglePage \/ FetchPageNumber \/ FetchOffset \/ FetchToken
    \/ StopAtMaxPages
    \/ Commit \/ Store

Next ==
    \/ Begin
    \/ Step
    \/ FetchLoop
    \/ Fails
    \/ \E i \in Records : \E c \in {Last, Last + 1} : Change(i, c)

Spec == Init /\ [][Next]_vars

(* The scheduler starts the next run, and a run goes on.                     *)
FairSpec == Spec /\ WF_vars(Begin) /\ WF_vars(Step)

-----------------------------------------------------------------------------
(* Properties.                                                               *)

(* The types, and max_pages is kept.                                         *)
RestTypeOK ==
    /\ cfg \in Setups
    /\ change \in [Records -> 0..MaxChanges]
    /\ stamp \in Seq(1..MaxChanges) /\ Len(stamp) <= MaxChanges
    /\ pc \in {"idle", "read", "commit", "store"}
    /\ {current_cursor, max_cursor, cursor_value} \subseteq 0..MaxChanges
    /\ request \in Nat
    /\ pages_fetched \in 0..cfg.max_pages
    /\ seen \subseteq 0..MaxChanges
    /\ got \in [Records -> 0..MaxChanges] /\ landed \in [Records -> 0..MaxChanges]
    /\ asOf \in 0..Len(stamp)
    /\ cut \in BOOLEAN
    /\ faults \in 0..MaxFaults

(* No record falls behind the watermark: what the next run's filter will not *)
(* ask for any more has landed as it is, although pages were cut off, reads  *)
(* failed, and records moved from page to page while they were read.         *)
NothingPassedOver ==
    \A i \in Records : change[i] # 0 /\ Cursor(i) < cursor_value => landed[i] = change[i]

(* A read that was not cut off yields every record that matched when it      *)
(* began and has not changed since.                                          *)
CompleteRead ==
    pc = "commit" /\ ~cut =>
        \A i \in Matching : change[i] <= asOf => got[i] = change[i]

(* One run can get past the records that share a cursor.                     *)
Capacity == IF cfg.paginator = "single_page" THEN PageSize ELSE cfg.max_pages * PageSize
TiesFit == \A c \in 1..MaxChanges :
    Cardinality({i \in Records : change[i] # 0 /\ Cursor(i) = c}) < Capacity

(* Once the records no longer change, runs bring every one of them to the    *)
(* destination, whatever max_pages is, unless more records share a cursor    *)
(* than a run reads.                                                         *)
Converges == <>[]TiesFit => <>[](landed = change)
-----------------------------------------------------------------------------
(* The inductive invariant behind the properties.                            *)

(* A stream is set up so that what is read does not change its position: a   *)
(* position shifts when a record before it is updated, and a page that was   *)
(* short when it was read by its number is not read again.                   *)
PositionsStand ==
    \A s \in Setups :
        /\ s.paginator = "page_number" => s.meanwhile = "nothing"
        /\ s.paginator = "offset" => s.meanwhile # "update"

(* Changes are numbered, and later ones have no smaller cursor.              *)
ApiInv ==
    /\ \A i \in Records : change[i] <= Len(stamp)
    /\ \A i, j \in Records : change[i] = change[j] /\ change[i] # 0 => i = j
    /\ \A m, n \in 1..Len(stamp) : m <= n => stamp[m] <= stamp[n]
    /\ \A n \in 1..Len(stamp) : stamp[n] <= n

(* The watermark is one that the API has given out.                          *)
MarkInv ==
    /\ cursor_value <= Last
    /\ pc # "idle" =>
          /\ current_cursor = cursor_value
          /\ cursor_value <= max_cursor /\ max_cursor <= Last
    /\ pc = "read" /\ Keyset => request <= Len(stamp)

(* What the run has yielded and has seen a larger cursor than.               *)
ReadInv ==
    /\ NothingPassedOver
    /\ pc \in {"read", "commit"} =>
          \A i \in Records :
             /\ got[i] # 0 => change[i] # 0 /\ Cursor(i) >= current_cursor
             /\ i \in Matching /\ Cursor(i) < max_cursor => got[i] = change[i]
    /\ pc = "store" =>
          \A i \in Records : change[i] # 0 /\ Cursor(i) < max_cursor => landed[i] = change[i]

(* What is before the position of the next request has been yielded.         *)
PageInv ==
    /\ pc = "read" =>
          /\ \A i \in Matching \ Remaining : got[i] = change[i]
          /\ cfg.paginator = "single_page" => request = 0
          /\ cfg.paginator = "offset" => request <= Cardinality(Matching)
    /\ CompleteRead

RestInv == RestTypeOK /\ ApiInv /\ MarkInv /\ ReadInv /\ PageInv
=============================================================================
