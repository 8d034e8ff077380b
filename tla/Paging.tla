------------------------------- MODULE Paging -------------------------------
(***************************************************************************)
(* The two listings of captures, by exact link and by text prefix          *)
(* (FindCapturesByLinkPage and FindCapturesByPrefixPage of crud.cpp, the   *)
(* queries of capture_meta_repo.cpp, the cursors of pagination.cpp and     *)
(* prefix_pagination.cpp), to a client that turns pages while captures     *)
(* are stored and purged.  Every query is a statement of its own, so the   *)
(* table may change between two queries of one page.                       *)
(***************************************************************************)
EXTENDS LinkKeys, FiniteSets

CONSTANTS
    Captures,   \* rows of the table, now or later, the link being a key
    Standing,   \* the ones that are in the table at first, among others
    Prefix,     \* the prefix that is listed
    Confs,      \* [page_max, per_link_max, links_per_page_max] of a server
    MaxChanges, \* bound of the changes of the table
    MaxFaults   \* bound of the queries that fail

Listings ==
    {[by |-> "prefix", link |-> Prefix]} \cup [by: {"link"}, link: {c.link : c \in Captures}]

\* A link, a direction, and a capture's time and id, or None where the listing resumes at
\* the next link.
Cursors == [dir: {"next", "previous"}, link: Text, at: Nat \cup {None}, id: Nat \cup {None}]

\* What a request has found so far: see Request.
Requests ==
    [cur: Cursors \cup {None}, stage: {"before", "links", "rows"}, include: BOOLEAN,
     links: Seq(Text), more: [previous: BOOLEAN, next: BOOLEAN], done: Nat,
     items: Seq(Captures), previousWithin: BOOLEAN, nextWithin: BOOLEAN, quiet: BOOLEAN]

Pages == [items: Seq(Captures), next: Cursors \cup {None}, previous: Cursors \cup {None}]

\* A prefix is text, so it has a byte below 0xFF.
ASSUME PagingAssumption ==
    /\ Captures \subseteq [id: Nat, link: Text, at: Nat] /\ IsFiniteSet(Captures)
    /\ Standing \subseteq Captures
    /\ Prefix \in Text /\ \E i \in DOMAIN Prefix : Prefix[i] < MaxByte
    /\ Confs \subseteq [page_max: Nat \ {0}, per_link_max: Nat \ {0},
                        links_per_page_max: Nat \ {0}]
    /\ MaxChanges \in Nat /\ MaxFaults \in Nat
    /\ None \notin Nat /\ None \notin Listings /\ None \notin Cursors /\ None \notin Requests

VARIABLES
    conf,     \* the server's configuration
    table,    \* the capture table
    pending,  \* captures that are not stored yet
    changes, faults,
    listing,  \* what is listed, None before the first request
    req,      \* the request in progress, None if there is none
    page,     \* the page the client looks at
    log,      \* history: what it has been shown since the first page or since it turned back
    forward,  \* history: it has never turned back
    stable    \* history: the captures that have been in the table since its first request

vars == <<conf, table, pending, changes, faults, listing, req, page, log, forward, stable>>

NoPage == [items |-> <<>>, next |-> None, previous |-> None]
KeysOf(rows) == {c.link : c \in rows}

Init ==
    /\ conf \in Confs
    /\ table \in {rows \in SUBSET Captures : Standing \subseteq rows} /\ pending = Captures \ table
    /\ changes = 0 /\ faults = 0
    /\ listing = None /\ req = None /\ page = NoPage
    /\ log = <<>> /\ forward = TRUE /\ stable = {}

-----------------------------------------------------------------------------
(* The queries.                                                            *)

Newer(c, d) == c.at > d.at \/ (c.at = d.at /\ c.id < d.id)
Older(c, d) == Newer(d, c)
Greater(s, t) == Less(t, s)

\* An "order by" without ties.
OrderedBy(S, Before(_, _)) ==
    CHOOSE s \in [1..Cardinality(S) -> S] :
        \A i, j \in 1..Cardinality(S) : i < j => Before(s[i], s[j])

Take(s, n) == SubSeq(s, 1, IF n < Len(s) THEN n ELSE Len(s))

RowsOf(link) == {c \in table : c.link = link}

GetCapturesByLinkFirst(link, limit) == Take(OrderedBy(RowsOf(link), Newer), limit)

(* Mutant of GetCapturesByLinkNext: captures of the cursor's time are left out. *)
GetCapturesByLinkNextLater(link, limit, cur) ==
    Take(OrderedBy({c \in RowsOf(link) : c.at < cur.at}, Newer), limit)

GetCapturesByLinkNext(link, limit, cur) ==
    Take(OrderedBy({c \in RowsOf(link) : Older(c, cur)}, Newer), limit)

GetCapturesByLinkPrev(link, limit, cur) ==
    Take(OrderedBy({c \in RowsOf(link) : Newer(c, cur)}, Older), limit)

LinksInRange == {l \in KeysOf(table) : AtMost(Prefix, l) /\ Less(l, UpperExclusiveBound(Prefix))}

GetDistinctLinksByPrefixFirst(limit) == Take(OrderedBy(LinksInRange, Less), limit)

GetDistinctLinksByPrefixNext(from, limit) ==
    Take(OrderedBy({l \in LinksInRange : Less(from, l)}, Less), limit)

GetDistinctLinksByPrefixPrev(from, limit) ==
    Take(OrderedBy({l \in LinksInRange : Less(l, from)}, Greater), limit)

-----------------------------------------------------------------------------
(* Cursors.                                                                *)

EncodeCursor(c, dir) == [dir |-> dir, link |-> c.link, at |-> c.at, id |-> c.id]
EncodeLinkCursor(c, dir) == [dir |-> dir, link |-> c.link, at |-> None, id |-> None]

Goes(cur, dir) == cur # None /\ cur.dir = dir
Within(cur) == cur # None /\ cur.at # None

-----------------------------------------------------------------------------
(* FindCapturesByLinkPage: one query.                                      *)

LinkPage(link, cur) ==
    LET limit == conf.page_max + 1
        rows  == CASE Goes(cur, "next") -> GetCapturesByLinkNext(link, limit, cur)
                   [] Goes(cur, "previous") -> GetCapturesByLinkPrev(link, limit, cur)
                   [] OTHER -> GetCapturesByLinkFirst(link, limit)
        more  == Len(rows) > conf.page_max
        kept  == Take(rows, conf.page_max)
        items == IF Goes(cur, "previous") THEN Reverse(kept) ELSE kept
        hasNext     == Goes(cur, "previous") \/ (more /\ ~Goes(cur, "previous"))
        hasPrevious == Goes(cur, "next") \/ (more /\ Goes(cur, "previous"))
    IN  [items    |-> items,
         next     |-> IF items # <<>> /\ hasNext THEN EncodeCursor(Last(items), "next") ELSE None,
         previous |-> IF items # <<>> /\ hasPrevious THEN EncodeCursor(Head(items), "previous")
                      ELSE None]

-----------------------------------------------------------------------------
(* FindCapturesByPrefixPage: a query for the links, after a query whether  *)
(* the cursor's link has captures before the cursor when the page goes     *)
(* backwards from within it, and then a query per link.                    *)

(* Mutant of PageLinks: the link that shows that there are more is kept.   *)
PageLinksAll(links, limit) ==
    [links |-> links, previous |-> FALSE, next |-> Len(links) > limit]

\* The links of the page, and whether there are more on either side.
PageLinks(links, limit) ==
    [links |-> Take(links, limit), previous |-> FALSE, next |-> Len(links) > limit]

(* Mutant of SelectLinks: a page that starts within a link leaves that link out. *)
SelectLinksAfter(cur, include) ==
    LET n == conf.links_per_page_max
    IN  IF cur = None THEN PageLinks(GetDistinctLinksByPrefixFirst(n + 1), n)
        ELSE IF cur.dir = "next"
        THEN PageLinks(GetDistinctLinksByPrefixNext(cur.link, n + 1), n)
        ELSE [links |-> Reverse(Take(GetDistinctLinksByPrefixPrev(cur.link, n), n)),
              previous |-> FALSE, next |-> FALSE]

SelectLinks(cur, include) ==
    LET n == conf.links_per_page_max
    IN  CASE cur = None -> PageLinks(GetDistinctLinksByPrefixFirst(n + 1), n)
          [] Goes(cur, "next") ->
                PageLinks(IF Within(cur)
                          THEN <<cur.link>> \o GetDistinctLinksByPrefixNext(cur.link, n)
                          ELSE GetDistinctLinksByPrefixNext(cur.link, n + 1), n)
          [] OTHER ->
                LET found == GetDistinctLinksByPrefixPrev(cur.link, IF include THEN n ELSE n + 1)
                    limit == IF include THEN n - 1 ELSE n
                IN  [links    |-> Reverse(Take(found, limit))
                                  \o (IF include THEN <<cur.link>> ELSE <<>>),
                     previous |-> Len(found) > limit, next |-> FALSE]

(* Mutant of SelectRows: a page forward starts afresh with its first link. *)
SelectRowsAfresh(cur, link, first) ==
    LET limit == conf.per_link_max + 1
    IN  IF Goes(cur, "previous") /\ Within(cur) /\ link = cur.link
        THEN GetCapturesByLinkPrev(link, limit, cur)
        ELSE GetCapturesByLinkFirst(link, limit)

\* select_rows_for_link.
SelectRows(cur, link, first) ==
    LET limit == conf.per_link_max + 1
    IN  CASE Goes(cur, "previous") /\ Within(cur) /\ link = cur.link ->
                GetCapturesByLinkPrev(link, limit, cur)
          [] Goes(cur, "next") /\ Within(cur) /\ first -> GetCapturesByLinkNext(link, limit, cur)
          [] OTHER -> GetCapturesByLinkFirst(link, limit)

\* What the loop over the links makes of the rows of the next link.
WithRows(r) ==
    LET link   == r.links[r.done + 1]
        rows   == SelectRows(r.cur, link, r.done = 0)
        resume == Goes(r.cur, "previous") /\ Within(r.cur) /\ link = r.cur.link
        more   == Len(rows) > conf.per_link_max
        kept   == Take(rows, conf.per_link_max)
        isLast == r.done + 1 = Len(r.links)
    IN  [r EXCEPT !.done = @ + 1,
                  !.items = @ \o (IF resume THEN Reverse(kept) ELSE kept),
                  !.previousWithin = @ \/ (more /\ resume),
                  !.nextWithin = @ \/ (more /\ ~resume /\ isLast) \/ (resume /\ kept # <<>>)]

PrefixPage(r) ==
    LET hasNext     == Goes(r.cur, "previous") \/ r.nextWithin \/ r.more.next
        hasPrevious == Goes(r.cur, "next") \/ r.more.previous \/ r.previousWithin
    IN  [items    |-> r.items,
         next     |-> IF r.items = <<>> \/ ~hasNext THEN None
                      ELSE IF r.nextWithin THEN EncodeCursor(Last(r.items), "next")
                      ELSE EncodeLinkCursor(Last(r.items), "next"),
         previous |-> IF r.items = <<>> \/ ~hasPrevious THEN None
                      ELSE EncodeCursor(Head(r.items), "previous")]

-----------------------------------------------------------------------------
(* The client.                                                             *)

tableVars == <<conf, table, pending, changes>>

Request(cur) ==
    [cur |-> cur, stage |-> IF Goes(cur, "previous") /\ Within(cur) THEN "before" ELSE "links",
     include |-> FALSE, links |-> <<>>, more |-> [previous |-> FALSE, next |-> FALSE],
     done |-> 0, items |-> <<>>, previousWithin |-> FALSE, nextWithin |-> FALSE,
     quiet |-> TRUE]

Open(l) ==
    /\ listing = None
    /\ listing' = l /\ req' = Request(None) /\ stable' = table
    /\ UNCHANGED <<tableVars, faults, page, log, forward>>

Turn(cur) ==
    /\ req = None /\ cur # None
    /\ req' = Request(cur)
    /\ UNCHANGED <<tableVars, faults, listing, page, log, forward, stable>>

Answer(p) ==
    /\ req' = None /\ page' = p
    /\ forward' = (forward /\ ~Goes(req.cur, "previous"))
    /\ log' = IF Goes(req.cur, "previous") THEN p.items ELSE log \o p.items
    /\ UNCHANGED <<tableVars, faults, listing, stable>>

FindCapturesByLinkPage ==
    /\ req # None /\ listing.by = "link"
    /\ Answer(LinkPage(listing.link, req.cur))

Continue(r) == req' = r /\ UNCHANGED <<tableVars, faults, listing, page, log, forward, stable>>

HasRowsBeforeInLink ==
    /\ req # None /\ listing.by = "prefix" /\ req.stage = "before"
    /\ Continue([req EXCEPT !.stage = "links",
                            !.include = GetCapturesByLinkPrev(req.cur.link, 1, req.cur) # <<>>])

FindLinks ==
    /\ req # None /\ listing.by = "prefix" /\ req.stage = "links"
    /\ LET found == SelectLinks(req.cur, req.include)
       IN  Continue([req EXCEPT !.stage = "rows", !.links = found.links,
                                !.more = [previous |-> found.previous, next |-> found.next]])

FindRows ==
    /\ req # None /\ listing.by = "prefix" /\ req.stage = "rows" /\ req.done < Len(req.links)
    /\ Continue(WithRows(req))

FindCapturesByPrefixPage ==
    /\ req # None /\ listing.by = "prefix" /\ req.stage = "rows" /\ req.done = Len(req.links)
    /\ Answer(PrefixPage(req))

\* A query fails; the client keeps its page and may ask again.
DbError ==
    /\ req # None /\ faults < MaxFaults
    /\ faults' = faults + 1 /\ req' = None
    /\ listing' = IF req.cur = None THEN None ELSE listing
    /\ UNCHANGED <<tableVars, page, log, forward, stable>>

-----------------------------------------------------------------------------
(* Storing and purging, as CaptureJobs does it, one capture at a time.     *)

Change(rows) ==
    /\ changes < MaxChanges /\ changes' = changes + 1
    /\ table' = rows /\ stable' = stable \cap rows
    /\ req' = IF req = None THEN None ELSE [req EXCEPT !.quiet = FALSE]
    /\ UNCHANGED <<conf, faults, listing, page, log, forward>>

InsertCapture(c) ==
    /\ c \in pending /\ pending' = pending \ {c}
    /\ Change(table \cup {c})

DeleteCapture(c) ==
    /\ c \in table /\ Change(table \ {c})
    /\ UNCHANGED pending

Finished == req = None /\ listing # None /\ UNCHANGED vars

Next ==
    \/ \E l \in Listings : Open(l)
    \/ Turn(page.next) \/ Turn(page.previous)
    \/ FindCapturesByLinkPage
    \/ HasRowsBeforeInLink \/ FindLinks \/ FindRows \/ FindCapturesByPrefixPage
    \/ DbError \/ Finished
    \/ \E c \in Captures : InsertCapture(c) \/ DeleteCapture(c)

Spec == Init /\ [][Next]_vars

-----------------------------------------------------------------------------
(* Properties.                                                             *)

Listed(c) == IF listing.by = "link" THEN c.link = listing.link ELSE IsPrefix(Prefix, c.link)

\* The order of a listing: by link, then newest first, then by id.
Precedes(c, d) == Less(c.link, d.link) \/ (c.link = d.link /\ Newer(c, d))

\* The variables have their types, and a page keeps to the configured size: so many
\* captures of a link, or so many links with so many captures each.
TypeOK ==
    /\ conf \in Confs /\ table \subseteq Captures /\ pending \subseteq Captures
    /\ changes \in 0..MaxChanges /\ faults \in 0..MaxFaults
    /\ listing \in Listings \cup {None} /\ forward \in BOOLEAN /\ stable \subseteq table
    /\ req \in Requests \cup {None} /\ page \in Pages /\ log \in Seq(Captures)
    /\ page # NoPage =>
          /\ \A c \in ToSet(page.items) : Listed(c)
          /\ listing.by = "link" => Len(page.items) <= conf.page_max
          /\ listing.by = "prefix" =>
                /\ Cardinality(KeysOf(ToSet(page.items))) <= conf.links_per_page_max
                /\ \A l \in KeysOf(ToSet(page.items)) :
                       Cardinality({i \in DOMAIN page.items : page.items[i].link = l})
                           <= conf.per_link_max

\* Page after page the captures come in the order of the listing, so none comes twice,
\* whatever is stored or purged meanwhile.
WalkIsOrdered == \A i, j \in DOMAIN log : i < j => Precedes(log[i], log[j])

\* A client that has turned page after page to the end has seen every capture of the link
\* that was there all the time, or of every link under the prefix that was there a capture:
\* but for a page by prefix that came out empty, which ends the walk wherever it is.
WalkIsComplete ==
    (listing # None /\ req = None /\ forward /\ page.next = None) =>
        IF listing.by = "link"
        THEN \A c \in stable : Listed(c) => c \in ToSet(log)
        ELSE page.items # <<>> =>
                \A c \in stable : Listed(c) => c.link \in KeysOf(ToSet(log))

\* Turning back leads to the captures just before the page: all of them precede it, no
\* capture lies between when a link is listed, and when a prefix is, no link does, unless
\* the table changes while the page is made.
PreviousIsAdjacent ==
    [][ (/\ req # None /\ req' = None /\ faults' = faults /\ req.quiet
         /\ Goes(req.cur, "previous")) =>
            LET first == Head(page.items)
                items == page'.items
                Before == {c \in table : Listed(c) /\ Precedes(c, first)}
            IN  /\ \A c \in ToSet(items) : Precedes(c, first)
                /\ Before # {} => items # <<>>
                /\ \A c \in Before :
                      \/ c \in ToSet(items) \/ Precedes(c, Last(items))
                      \/ listing.by = "prefix" /\ c.link = Last(items).link ]_vars

\* The facts about LinkKeys, which no state changes, are looked at in one initial state.
AtFirst == table = Standing /\ listing = None /\ changes + faults = 0

\* A scan by text prefix finds exactly the keys that start with it, the tree by which links
\* are denied and purged misses none below a prefix, and a key that was listed finds its
\* link again, with the exceptions BoundIsExact, TreeIsSegmentwise and KeyIsStable name.
KeysAreExact ==
    AtFirst => BoundIsExact(SomeTexts) /\ TreeIsSegmentwise(SomeLinks) /\ KeyIsStable(SomeLinks)
=============================================================================
