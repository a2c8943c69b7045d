----------------------------- MODULE SearchPages -----------------------------
(***************************************************************************)
(* The filtered, endless lists of the browser (src/frontend/src): the      *)
(* worker search, the jobs list, the admin's users and the workers         *)
(* suggested for a job.  Each is the same machine: the panel's filters are *)
(* local state, pushed 300 ms after the last change into the URL (the      *)
(* admin's into other local state); what was pushed is the key of a cached *)
(* infinite query, whose next page starts after the rows fetched so far.   *)
(*                                                                         *)
(* A filter set is the set of its criteria; a row is listed when it meets  *)
(* them all.  One behaviour is about one of the lists.                     *)
(***************************************************************************)
EXTENDS Naturals, Sequences, FiniteSets, SequencesExt

CONSTANTS Rows,          \* rows, in the order the server sorts them
          Options,       \* the criteria a panel offers
          Control,       \* Control[c]: the control that offers c, one at a time
          Meets,         \* Meets[r]: the criteria row r meets
          Links,         \* parameters of the URLs a list is opened with
          Lists,         \* the lists of this instance
          PageSize,      \* PAGE_SIZE: what the hooks ask for
          DefaultSize,   \* page_size of GET /jobs
          MaxActs, MaxChanges, MaxFaults,  \* bounds: user, other users, failures
          Null

\* Coordinates: of the link itself, or of the user's stored location.
Places == {"link", "home"}
Criteria == Options \cup Places
AllLists == {"workers", "jobs", "admin", "nearby"}

ASSUME SearchAssumption ==
    /\ Rows \subseteq Nat /\ IsFiniteSet(Rows) /\ Options \cap Places = {}
    /\ DOMAIN Control = Options
    /\ Meets \in [Rows -> SUBSET Criteria]
    /\ Lists \subseteq AllLists
    /\ PageSize \in Nat \ {0} /\ DefaultSize \in Nat \ {0}
    /\ MaxActs \in Nat /\ MaxChanges \in Nat /\ MaxFaults \in Nat

VARIABLES
    list,      \* which list this behaviour is about
    present,   \* the rows on the server
    stored,    \* Redux: the user's location; for "nearby", the job's
    applied,   \* the URL's parameters (the admin's effectiveFilters)
    pending,   \* pendingFilters: what the panel shows
    timer,     \* the debounce: what it will push
    mounted,   \* the list is on the page
    cache,     \* cache[k]: the query of key k
    acts, changes, faults

page == <<applied, pending, timer, mounted>>
bounds == <<acts, changes, faults>>
searchVars == <<list, present, stored, page, cache, bounds>>

-----------------------------------------------------------------------------
(* The filters.                                                            *)

\* What searchParamsToFilters knows; anything else in a URL is dropped.
Known == IF list = "workers" THEN Criteria ELSE Options
Parse(params) == params \cap Known
\* filtersToSearchParams: what is set.
Serialise(filters) == filters

\* setLocation gets undefined when an account update has no location in it:
\* no longer null, yet no coordinates.
StoredPlaces == {"home", "undefined", Null}

\* The coordinates of the URL, else those of the store.
Effective(filters) ==
    IF list = "workers" /\ stored = "home" /\ "link" \notin filters
    THEN filters \cup {"home"} ELSE filters
Keys == SUBSET Criteria
Key == Effective(Parse(applied))

\* What a panel's control sends is merged into the filters: a criterion in
\* place of the control's other one, or the control unset; the clear button
\* unsets all that the panel offers.
Choose(filters, c) ==
    {d \in filters : d \in Options => Control[d] # Control[c]} \cup {c}
Clear(filters) == filters \ Options
Panel(filters) ==
    {Clear(filters)} \cup {Choose(filters, c) : c \in Options}
        \cup {filters \ {c} : c \in Options}
-----------------------------------------------------------------------------
(* The server's answer to a page request.                                  *)

\* The rows that match, each where as many come before it as the place says.
Matching(key) ==
    LET match == {r \in present : key \subseteq Meets[r]}
    IN [i \in 1..Cardinality(match) |->
           CHOOSE r \in match : Cardinality({q \in match : q < r}) = i - 1]

\* Listed from an offset; `of` is history: the rows that matched then.
Slice(all, offset, size) ==
    [rows |-> SubSeq(all, offset + 1, Min({offset + size, Len(all)})),
     more |-> offset + size < Len(all), of |-> all]

\* GET /jobs takes page and page_size, and the hook sends offset and limit:
\* every answer is the first page.
ServerPage(key, offset) ==
    IF list = "jobs" THEN Slice(Matching(key), 0, DefaultSize)
    ELSE Slice(Matching(key), offset, PageSize)
-----------------------------------------------------------------------------
(* The infinite query.                                                     *)

NoFetch == [phase |-> "idle", kind |-> "all", pages |-> <<>>, rest |-> 0, answer |-> Null]
NewEntry == [pages |-> <<>>, error |-> FALSE, stale |-> FALSE, fetch |-> NoFetch]

Flat(pages) == FlattenSeq([i \in 1..Len(pages) |-> pages[i].rows])

\* mutant: the next page starts after the pages, not after their rows
OffsetOfPages(pages) == Len(pages)
\* getNextPageParam.
Offset(pages) == Len(Flat(pages))
HasMore(pages) == pages # <<>> /\ Last(pages).more

\* A fetch of everything shown so far, page by page, or of the next page.
FetchAll(e) ==
    [e EXCEPT !.fetch = [NoFetch EXCEPT !.phase = "sent", !.rest = IF e.pages = <<>> THEN 1 ELSE Len(e.pages)]]
FetchNext(e) ==
    [e EXCEPT !.fetch = [NoFetch EXCEPT !.phase = "sent", !.kind = "next", !.pages = e.pages, !.rest = 1]]

\* A list comes to observe an entry: one that is new or stale is fetched.
Observed(e) == IF e.fetch.phase = "idle" /\ (e.pages = <<>> \/ e.stale) THEN FetchAll(e) ELSE e
Enabled == list = "nearby" => stored = "home"
Observe(key) == cache' = IF Enabled THEN [cache EXCEPT ![key] = Observed(@)] ELSE cache

\* Each endpoint counts the rows and then selects them, in two statements of
\* one read; here they see the same rows.
AnswerFetch(k) ==
    /\ cache[k].fetch.phase = "sent"
    /\ cache' = [cache EXCEPT ![k].fetch.phase = "answered",
                              ![k].fetch.answer = ServerPage(k, Offset(cache[k].fetch.pages))]
    /\ UNCHANGED <<list, present, stored, page, bounds>>

ReceiveFetch(k) ==
    /\ cache[k].fetch.phase = "answered"
    /\ LET fetch == cache[k].fetch
           pages == Append(fetch.pages, fetch.answer)
       IN cache' = [cache EXCEPT ![k] =
             IF fetch.rest > 1 /\ HasMore(pages)
             THEN [@ EXCEPT !.fetch = [fetch EXCEPT !.phase = "sent", !.pages = pages,
                                                    !.rest = @ - 1, !.answer = Null]]
             ELSE [NewEntry EXCEPT !.pages = pages]]
    /\ UNCHANGED <<list, present, stored, page, bounds>>

\* A page fails, and its one retry: what was shown stays in the cache.
FetchFails(k) ==
    /\ cache[k].fetch.phase = "sent"
    /\ faults < MaxFaults /\ faults' = faults + 1
    /\ cache' = [cache EXCEPT ![k].fetch = NoFetch, ![k].error = TRUE]
    /\ UNCHANGED <<list, present, stored, page, acts, changes>>

\* 30 seconds pass since the entry was fetched.
Ages(k) ==
    /\ cache[k].pages # <<>> /\ ~cache[k].stale
    /\ cache' = [cache EXCEPT ![k].stale = TRUE]
    /\ UNCHANGED <<list, present, stored, page, bounds>>
-----------------------------------------------------------------------------
(* What a page shows.                                                      *)

Entry == cache[Key]
IsLoading == Enabled /\ Entry.pages = <<>> /\ Entry.fetch.phase # "idle"
Loaded == ~IsLoading /\ Flat(Entry.pages) # <<>>
IsFetchingNextPage == Entry.fetch.phase # "idle" /\ Entry.fetch.kind = "next"

\* An error hides the rows of the worker search and of the admin's users.
WorkersShown == Loaded /\ ~Entry.error
UsersShown == Loaded /\ ~Entry.error
JobsShown == Loaded
NearbyShown == Enabled /\ Flat(Entry.pages) # <<>>
RowsShown ==
    /\ mounted
    /\ CASE list = "workers" -> WorkersShown
         [] list = "admin" -> UsersShown
         [] list = "jobs" -> JobsShown
         [] list = "nearby" -> NearbyShown

CanLoadMore == RowsShown /\ HasMore(Entry.pages) /\ ~IsFetchingNextPage
-----------------------------------------------------------------------------
(* The user.                                                               *)

Act == acts < MaxActs /\ acts' = acts + 1 /\ UNCHANGED <<changes, faults>>

NoTimer == [armed |-> FALSE, value |-> {}]
Armed(filters) == [armed |-> list # "nearby", value |-> filters]

SearchInit ==
    /\ list \in Lists
    /\ present = Rows /\ stored \in StoredPlaces
    /\ applied = {} /\ pending = {} /\ timer = NoTimer /\ mounted = FALSE
    /\ cache = [k \in Keys |-> NewEntry]
    /\ acts = 0 /\ changes = 0 /\ faults = 0

\* The list is opened: by a link, or by going back to the URL it left.  The
\* admin's page starts over.
Open ==
    /\ ~mounted /\ Act
    /\ mounted' = TRUE
    /\ \E params \in IF list \in {"workers", "jobs"} THEN Links \cup {applied} ELSE {{}} :
         /\ applied' = params
         /\ pending' = Parse(params)
         /\ timer' = Armed(Parse(params))
         /\ Observe(Effective(Parse(params)))
    /\ UNCHANGED <<list, present, stored>>

\* The debounce's cleanup.
Leave ==
    /\ mounted /\ Act
    /\ mounted' = FALSE /\ timer' = NoTimer
    /\ UNCHANGED <<list, present, stored, applied, pending, cache>>

\* mutant: the effect runs on mount only
RearmedOnMountOnly(filters) == timer
\* The effect on pendingFilters: the timer starts again with the new value.
Rearmed(filters) == Armed(filters)

\* updateFilters.  The suggested workers have no panel.
UpdateFilters ==
    /\ mounted /\ list # "nearby" /\ Act
    /\ \E filters \in Panel(pending) : pending' = filters /\ timer' = Rearmed(filters)
    /\ UNCHANGED <<list, present, stored, applied, mounted, cache>>

\* setSearchParams, or setEffectiveFilters: the query's key follows.
Push ==
    /\ timer.armed
    /\ applied' = Serialise(timer.value)
    /\ timer' = NoTimer
    /\ Observe(Effective(Parse(applied')))
    /\ UNCHANGED <<list, present, stored, pending, mounted, bounds>>

\* fetchNextPage, in place of a fetch of all pages that is in flight.
LoadMore ==
    /\ CanLoadMore /\ Act
    /\ cache' = [cache EXCEPT ![Key] = FetchNext(@)]
    /\ UNCHANGED <<list, present, stored, page>>

\* The account (or the job) is edited on another page.
UpdateAccount ==
    /\ ~mounted /\ Act
    /\ stored' \in {"home", "undefined"}
    /\ UNCHANGED <<list, present, page, cache>>

\* Someone else's row comes or goes.
Change ==
    /\ changes < MaxChanges /\ changes' = changes + 1
    /\ \E r \in Rows : present' = IF r \in present THEN present \ {r} ELSE present \cup {r}
    /\ UNCHANGED <<list, stored, page, cache, acts, faults>>
-----------------------------------------------------------------------------
Fetching == \E k \in Keys : AnswerFetch(k) \/ ReceiveFetch(k) \/ FetchFails(k) \/ Ages(k)
SearchNext == Open \/ Leave \/ UpdateFilters \/ Push \/ LoadMore \/ UpdateAccount \/ Change \/ Fetching

\* The timer fires, unless it is cleared.
SearchSpec == SearchInit /\ [][SearchNext]_searchVars /\ WF_searchVars(Push)
-----------------------------------------------------------------------------
(* Properties.                                                             *)

PageType == [rows : Seq(Rows), more : BOOLEAN, of : Seq(Rows)]

\* SearchTypeOK: every variable keeps its type.
SearchTypeOK ==
    /\ list \in Lists /\ present \subseteq Rows /\ stored \in StoredPlaces
    /\ applied \subseteq (UNION Links) \cup Criteria /\ pending \subseteq Criteria
    /\ timer \in [armed : BOOLEAN, value : SUBSET Criteria] /\ mounted \in BOOLEAN
    /\ \A k \in Keys : LET e == cache[k] IN
         /\ e.pages \in Seq(PageType) /\ e.error \in BOOLEAN /\ e.stale \in BOOLEAN
         /\ e.fetch.phase \in {"idle", "sent", "answered"} /\ e.fetch.kind \in {"all", "next"}
         /\ e.fetch.pages \in Seq(PageType) /\ e.fetch.rest \in Nat

\* RowsComeOnce: pages that were cut from the same rows put them together
\* again: a prefix, none twice and none left out, and "load more" is there
\* exactly as long as rows are missing (getNextPageParam).
RowsComeOnce ==
    \A k \in Keys :
        LET pages == cache[k].pages IN
        (pages # <<>> /\ \A i \in 1..Len(pages) : pages[i].of = pages[1].of) =>
            /\ IsPrefix(Flat(pages), pages[1].of)
            /\ HasMore(pages) = (Flat(pages) # pages[1].of)

\* PanelAgreesWithRows: when the debounce is over, the rows are those of the
\* filters the panel shows, with the coordinates of the link or the store,
\* whatever was clicked, left and reopened meanwhile.
PanelAgreesWithRows ==
    mounted /\ ~timer.armed =>
        /\ Key = Effective(pending)
        /\ Enabled => Entry.pages # <<>> \/ Entry.error \/ Entry.fetch.phase # "idle"

\* ListIsWhatWasAsked: panel, URL and query key are three copies of one choice
\* and pages are cut one by one, and still the list is the rows of what the
\* panel shows, each once and in order.
ListIsWhatWasAsked == RowsComeOnce /\ PanelAgreesWithRows

\* FiltersTakeEffect: what the user last chose becomes the key of the query,
\* unless the page is left, however often the choice changes before.
FiltersTakeEffect == mounted ~> (~mounted \/ Parse(applied) = pending)

\* LoadMoreAppendsNewRows: src/frontend/src/features/job/tests/hooks/
\* useGetJobs.test.tsx:120 "appends new jobs on loadMore".
LoadMoreAppendsNewRows ==
    \A k \in Keys : changes = 0 => IsInjective(Flat(cache[k].pages))
=============================================================================
