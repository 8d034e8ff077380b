---------------------------- MODULE PagingProofs ----------------------------
(***************************************************************************)
(* Theorems about Paging, for every table, every change of it, every       *)
(* configuration and any number of pages turned.                           *)
(***************************************************************************)
EXTENDS PagingQueryProofs

-----------------------------------------------------------------------------
(***************************************************************************)
(* The inductive invariant.                                                *)
(***************************************************************************)

(* Types.                                                                  *)
PagingTypes ==
    /\ conf \in Confs /\ table \subseteq Captures /\ pending \subseteq Captures
    /\ changes \in 0..MaxChanges /\ faults \in 0..MaxFaults
    /\ listing \in Listings \cup {None} /\ forward \in BOOLEAN /\ stable \subseteq table
    /\ req \in Requests \cup {None} /\ page \in Pages /\ log \in Seq(Captures)

(* Before the first page nothing has been shown.                           *)
StartInv ==
    /\ (listing = None \/ (req # None /\ req.cur = None)) => page = NoPage /\ log = <<>> /\ forward
    /\ req # None => listing # None /\ req.cur \in {None, page.next, page.previous}

(* The cursors of the page lead on from its ends, and the walk ends with it. *)
CursorInv ==
    /\ page.next # None =>
          /\ page.items # <<>> /\ page.next.dir = "next"
          /\ page.next.link = Last(page.items).link
          /\ page.next.at # None =>
                page.next.at = Last(page.items).at /\ page.next.id = Last(page.items).id
          /\ listing.by = "link" => page.next.at # None
    /\ page.previous # None =>
          page.items # <<>> /\ page.previous = EncodeCursor(Head(page.items), "previous")
    /\ page.items # <<>> => log # <<>> /\ Last(log) = Last(page.items)

(* What has been shown is of the listing and in its order.                 *)
OrderInv ==
    /\ InOrder(log) /\ \A i \in 1..Len(log) : Listed(log[i])
    /\ InOrder(page.items) /\ \A i \in 1..Len(page.items) : Listed(page.items[i])

(* The links of a request climb on the cursor's far side.                  *)
LinksInv(r) ==
    /\ r.stage # "rows" => r.done = 0 /\ r.items = <<>> /\ r.links = <<>>
    /\ r.done <= Len(r.links) /\ Len(r.links) <= conf.links_per_page_max /\ Climbs(r.links)
    /\ \A k \in 1..Len(r.links) :
          /\ IsPrefix(Prefix, r.links[k])
          /\ Goes(r.cur, "next") => \/ Less(r.cur.link, r.links[k]) /\ (k = 1 => ~Within(r.cur))
                                    \/ k = 1 /\ Within(r.cur) /\ r.links[k] = r.cur.link
          /\ Goes(r.cur, "previous") => Less(r.links[k], r.cur.link) \/ r.links[k] = r.cur.link

Follows(c, cur) == Less(cur.link, c.link) \/ (Within(cur) /\ cur.link = c.link /\ Newer(cur, c))
Leads(c, cur) == Less(c.link, cur.link) \/ (Within(cur) /\ cur.link = c.link /\ Newer(c, cur))

(* So do its items, which are of the links that are done.                  *)
ItemsInv(r) ==
    /\ InOrder(r.items)
    /\ \A i \in 1..Len(r.items) :
          /\ \E k \in 1..r.done : r.items[i].link = r.links[k]
          /\ Goes(r.cur, "next") => Follows(r.items[i], r.cur)
          /\ Goes(r.cur, "previous") => Leads(r.items[i], r.cur)

RequestInv == req # None => LinksInv(req) /\ ItemsInv(req)

HasLink(q, l) == \E i \in 1..Len(q) : q[i].link = l

(* What has been there all the time has been shown, or is still ahead.     *)
AheadInv ==
    forward /\ listing # None /\ (req = None \/ req.cur # None) =>
        \A c \in stable : Listed(c) =>
            IF listing.by = "link"
            THEN Occurs(c, log) \/ (page.next # None /\ Newer(Last(log), c))
            ELSE \/ page.items = <<>> \/ HasLink(log, c.link)
                 \/ page.next # None /\ Less(Last(log).link, c.link)

(* Or is on the page that is being made.                                   *)
MakingInv ==
    (/\ req # None /\ listing.by = "prefix" /\ forward
     /\ req.stage = "rows" /\ ~Goes(req.cur, "previous")) =>
        \A c \in stable : Listed(c) =>
            \/ HasLink(log, c.link) \/ HasLink(req.items, c.link)
            \/ \E k \in 1..Len(req.links) : k > req.done /\ req.links[k] = c.link
            \/ req.more.next /\ \A k \in 1..Len(req.links) : Less(req.links[k], c.link)

(* A page that goes back over a table that does not change misses nothing. *)
QuietInv ==
    (req # None /\ listing.by = "prefix" /\ req.quiet /\ Goes(req.cur, "previous")) =>
        /\ req.stage # "before" =>
              (req.include <=> \E c \in table : c.link = req.cur.link /\ Newer(c, req.cur))
        /\ req.stage = "rows" =>
              /\ LinksBack(req.links, req.cur, req.include)
              /\ \A k \in 1..req.done : HasLink(req.items, req.links[k])

OfLink(q, l) == {i \in 1..Len(q) : q[i].link = l}

SizeInv ==
    /\ req # None => \A l \in Text : Cardinality(OfLink(req.items, l)) <= conf.per_link_max
    /\ listing # None /\ listing.by = "link" => Len(page.items) <= conf.page_max
    /\ listing # None /\ listing.by = "prefix" =>
          /\ Cardinality(KeysOf(ToSet(page.items))) <= conf.links_per_page_max
          /\ \A l \in Text : Cardinality(OfLink(page.items, l)) <= conf.per_link_max

(* All of it but what the last two sections add.                           *)
WalkInv == PagingTypes /\ StartInv /\ CursorInv /\ OrderInv /\ RequestInv

-----------------------------------------------------------------------------
(***************************************************************************)
(* Every step keeps it.                                                    *)
(***************************************************************************)

(* A request as it starts.                                                 *)
LEMMA RequestMeaning ==
    ASSUME NEW cur \in Cursors \cup {None}, NEW r, r = Request(cur)
    PROVE  /\ r \in Requests /\ r # None
           /\ r.cur = cur /\ r.links = <<>> /\ r.done = 0 /\ r.items = <<>> /\ r.stage # "rows"
           /\ (r.stage = "before") <=> (Goes(cur, "previous") /\ Within(cur))
<1>1. r \in Requests
  BY DEF Requests, Request
<1> QED
  BY <1>1, PagingAssumption DEF Request

(* It satisfies what is asked of requests.                                 *)
LEMMA FreshRequest ==
    ASSUME conf \in Confs, NEW r, r.links = <<>>, r.done = 0, r.items = <<>>
    PROVE  LinksInv(r) /\ ItemsInv(r)
<1>1. Len(r.links) = 0 /\ Len(r.items) = 0
  OBVIOUS
<1>2. 0 <= conf.links_per_page_max
  BY Limits
<1> QED
  BY <1>1, <1>2 DEF LinksInv, ItemsInv, Climbs, InOrder

(* No page.                                                                *)
LEMMA NoPageMeaning ==
    NoPage \in Pages /\ NoPage.items = <<>> /\ NoPage.next = None /\ NoPage.previous = None
BY DEF NoPage, Pages

(* Nothing shown.                                                          *)
LEMMA NothingShown ==
    ASSUME page = NoPage, log = <<>>
    PROVE  CursorInv /\ OrderInv
BY NoPageMeaning DEF CursorInv, OrderInv, InOrder

(* It holds at first.                                                      *)
LEMMA InitWalk == Init => WalkInv
<1> SUFFICES ASSUME Init PROVE WalkInv
  OBVIOUS
<1>1. PagingTypes
  BY NoPageMeaning, PagingAssumption DEF Init, PagingTypes
<1>2. StartInv
  BY DEF Init, StartInv
<1>3. CursorInv /\ OrderInv
  BY NothingShown DEF Init
<1> QED
  BY <1>1, <1>2, <1>3 DEF Init, RequestInv, WalkInv

(* The first request of a listing.                                         *)
LEMMA OpenWalk ==
    ASSUME WalkInv, NEW l \in Listings, Open(l)
    PROVE  WalkInv'
<1>1. page' = NoPage /\ log' = <<>> /\ forward' /\ listing' = l /\ l # None
  BY PagingAssumption DEF WalkInv, StartInv, Open
<1>2. /\ req' \in Requests /\ req' # None /\ req'.cur = None /\ req'.links = <<>>
      /\ req'.done = 0 /\ req'.items = <<>>
  BY RequestMeaning DEF Open
<1>3. PagingTypes'
  BY <1>2 DEF WalkInv, PagingTypes, Open, tableVars
<1>4. StartInv'
  BY <1>1, <1>2 DEF StartInv
<1>5. (CursorInv /\ OrderInv)'
  <2>1. (page = NoPage /\ log = <<>>)'
    BY <1>1
  <2> QED
    BY <2>1, NoPageMeaning DEF CursorInv, OrderInv, InOrder
<1>6. LinksInv(req') /\ ItemsInv(req')
  BY <1>2, FreshRequest DEF WalkInv, PagingTypes
<1>7. conf' = conf
  BY DEF Open, tableVars
<1>8. RequestInv'
  BY <1>6, <1>7 DEF RequestInv, LinksInv, ItemsInv
<1> QED
  BY <1>3, <1>4, <1>5, <1>8 DEF WalkInv

(* A request for the next or the previous page.                            *)
LEMMA TurnWalk ==
    ASSUME WalkInv, NEW cur \in {page.next, page.previous}, Turn(cur)
    PROVE  WalkInv'
<1>1. cur # None /\ cur \in Cursors
  BY DEF WalkInv, PagingTypes, Pages, Turn
<1>2. listing # None
  <2>1. page # NoPage
    BY <1>1, NoPageMeaning
  <2> QED
    BY <2>1 DEF WalkInv, StartInv
<1>3. /\ req' \in Requests /\ req' # None /\ req'.cur = cur /\ req'.links = <<>>
      /\ req'.done = 0 /\ req'.items = <<>>
  BY <1>1, RequestMeaning DEF Turn
<1>4. UNCHANGED <<conf, table, pending, changes, faults, listing, page, log, forward, stable>>
  BY DEF Turn, tableVars
<1>5. PagingTypes'
  BY <1>3, <1>4 DEF WalkInv, PagingTypes
<1>6. StartInv'
  BY <1>1, <1>2, <1>3, <1>4 DEF StartInv
<1>7. CursorInv' /\ OrderInv'
  BY <1>4 DEF WalkInv, CursorInv, OrderInv, Listed
<1>8. LinksInv(req') /\ ItemsInv(req')
  BY <1>3, FreshRequest DEF WalkInv, PagingTypes
<1>9. RequestInv'
  BY <1>4, <1>8 DEF RequestInv, LinksInv, ItemsInv
<1> QED
  BY <1>5, <1>6, <1>7, <1>9 DEF WalkInv

(* A step of the table's.                                                  *)
LEMMA ChangedRequest ==
    ASSUME req \in Requests \cup {None}, NEW rows, Change(rows)
    PROVE  /\ req' \in Requests \cup {None} /\ (req' = None <=> req = None)
           /\ req # None =>
                 /\ req'.cur = req.cur /\ req'.stage = req.stage /\ req'.include = req.include
                 /\ req'.links = req.links /\ req'.more = req.more /\ req'.done = req.done
                 /\ req'.items = req.items /\ ~req'.quiet
<1>1. CASE req = None
  BY <1>1 DEF Change
<1>2. CASE req # None
  <2>1. req \in Requests /\ req' = [req EXCEPT !.quiet = FALSE]
    BY <1>2 DEF Change
  <2>2. req' \in Requests
    BY <2>1 DEF Requests
  <2>3. req' # None
    BY <2>2, PagingAssumption
  <2> QED
    BY <1>2, <2>1, <2>2, <2>3 DEF Requests
<1> QED
  BY <1>1, <1>2

(* A capture is stored or purged, possibly between two queries of a page.  *)
LEMMA ChangeWalk ==
    ASSUME WalkInv, NEW rows, rows \subseteq Captures, Change(rows), pending' \subseteq Captures
    PROVE  WalkInv'
<1>1. UNCHANGED <<conf, faults, listing, page, log, forward>>
  BY DEF Change
<1>2. changes' \in 0..MaxChanges
  BY PagingAssumption DEF WalkInv, PagingTypes, Change
<1>3. req \in Requests \cup {None}
  BY DEF WalkInv, PagingTypes
<1>4. /\ req' \in Requests \cup {None} /\ (req' = None <=> req = None)
      /\ req # None =>
            /\ req'.cur = req.cur /\ req'.stage = req.stage /\ req'.include = req.include
            /\ req'.links = req.links /\ req'.more = req.more /\ req'.done = req.done
            /\ req'.items = req.items
  BY <1>3, ChangedRequest
<1>5. PagingTypes'
  BY <1>1, <1>2, <1>4 DEF WalkInv, PagingTypes, Change
<1>6. StartInv'
  BY <1>1, <1>4 DEF WalkInv, StartInv
<1>7. CursorInv' /\ OrderInv'
  BY <1>1 DEF WalkInv, CursorInv, OrderInv, Listed
<1>8. RequestInv'
  <2>1. CASE req = None
    BY <1>4, <2>1 DEF RequestInv
  <2>2. CASE req # None
    <3>1. LinksInv(req) /\ ItemsInv(req)
      BY <2>2 DEF WalkInv, RequestInv
    <3>2. LinksInv(req')
      BY <1>4, <2>2, <3>1 DEF LinksInv
    <3>3. ItemsInv(req')
      BY <1>4, <2>2, <3>1 DEF ItemsInv
    <3> QED
      BY <1>1, <3>2, <3>3 DEF RequestInv, LinksInv, ItemsInv
  <2> QED
    BY <2>1, <2>2
<1> QED
  BY <1>5, <1>6, <1>7, <1>8 DEF WalkInv

(* A query fails: the client keeps its page, or starts anew if it had      *)
(* none.                                                                   *)
LEMMA DbErrorWalk ==
    ASSUME WalkInv, DbError
    PROVE  WalkInv'
<1>1. UNCHANGED <<conf, table, pending, changes, page, log, forward, stable>> /\ req' = None
  BY DEF DbError, tableVars
<1>2. faults' \in 0..MaxFaults
  BY PagingAssumption DEF WalkInv, PagingTypes, DbError
<1>3. listing' \in Listings \cup {None}
  BY DEF WalkInv, PagingTypes, DbError
<1>4. PagingTypes'
  BY <1>1, <1>2, <1>3 DEF WalkInv, PagingTypes
<1>5. CASE req.cur = None
  <2>1. page = NoPage /\ log = <<>> /\ forward
    BY <1>5 DEF WalkInv, StartInv, DbError
  <2>2. (page = NoPage /\ log = <<>>)' /\ forward'
    BY <1>1, <2>1
  <2>3. StartInv'
    BY <1>1, <2>2 DEF StartInv
  <2>4. CursorInv' /\ OrderInv'
    BY <2>2, NoPageMeaning DEF CursorInv, OrderInv, InOrder
  <2> QED
    BY <1>1, <1>4, <2>3, <2>4 DEF WalkInv, RequestInv
<1>6. CASE req.cur # None
  <2>1. listing' = listing /\ listing # None
    BY <1>6 DEF WalkInv, StartInv, DbError
  <2>2. StartInv'
    BY <1>1, <2>1 DEF StartInv
  <2>3. CursorInv' /\ OrderInv'
    BY <1>1, <2>1 DEF WalkInv, CursorInv, OrderInv, Listed
  <2> QED
    BY <1>1, <1>4, <2>2, <2>3 DEF WalkInv, RequestInv
<1> QED
  BY <1>5, <1>6

(* The cursor of a request that goes on is at the end of what was shown.   *)
LEMMA CursorAtEnd ==
    ASSUME WalkInv, req # None, Goes(req.cur, "next")
    PROVE  /\ req.cur = page.next /\ log # <<>> /\ Len(log) \in 1..Len(log)
           /\ Last(log) = log[Len(log)] /\ Last(log) \in Captures
           /\ req.cur.link = Last(log).link /\ page.items # <<>>
           /\ Within(req.cur) => req.cur.at = Last(log).at /\ req.cur.id = Last(log).id
<1>1. req.cur # None /\ req.cur.dir = "next"
  BY DEF Goes
<1>2. req.cur = page.next
  <2>1. req.cur \in {page.next, page.previous}
    BY <1>1 DEF WalkInv, StartInv
  <2>2. page.previous # None => page.previous.dir = "previous"
    BY DEF WalkInv, CursorInv, EncodeCursor
  <2> QED
    BY <1>1, <2>1, <2>2
<1>3. page.items # <<>> /\ log # <<>> /\ Last(log) = Last(page.items)
  BY <1>1, <1>2 DEF WalkInv, CursorInv
<1>4. req.cur.link = Last(log).link
  BY <1>1, <1>2, <1>3 DEF WalkInv, CursorInv
<1>5. Within(req.cur) => req.cur.at = Last(log).at /\ req.cur.id = Last(log).id
  BY <1>1, <1>2, <1>3 DEF WalkInv, CursorInv, Within
<1>6. log \in Seq(Captures)
  BY DEF WalkInv, PagingTypes
<1>7. Len(log) \in 1..Len(log)
  BY <1>3, <1>6
<1>8. Last(log) = log[Len(log)] /\ Last(log) \in Captures
  BY <1>6, <1>7 DEF Last
<1> QED
  BY <1>2, <1>3, <1>4, <1>5, <1>7, <1>8

(* The cursor of a request that goes back is at the start of the page.     *)
LEMMA CursorAtStart ==
    ASSUME WalkInv, req # None, Goes(req.cur, "previous")
    PROVE  /\ req.cur = page.previous /\ page.items # <<>> /\ 1 \in 1..Len(page.items)
           /\ Head(page.items) = page.items[1] /\ Head(page.items) \in Captures
           /\ req.cur.link = Head(page.items).link /\ Within(req.cur)
           /\ req.cur.at = Head(page.items).at /\ req.cur.id = Head(page.items).id
<1>1. req.cur # None /\ req.cur.dir = "previous"
  BY DEF Goes
<1>2. req.cur = page.previous
  <2>1. req.cur \in {page.next, page.previous}
    BY <1>1 DEF WalkInv, StartInv
  <2>2. page.next # None => page.next.dir = "next"
    BY DEF WalkInv, CursorInv
  <2> QED
    BY <1>1, <2>1, <2>2
<1>3. page.items # <<>> /\ req.cur = EncodeCursor(Head(page.items), "previous")
  BY <1>1, <1>2 DEF WalkInv, CursorInv
<1>4. page.items \in Seq(Captures)
  BY DEF WalkInv, PagingTypes, Pages
<1>5. 1 \in 1..Len(page.items) /\ Head(page.items) = page.items[1] /\ Head(page.items) \in Captures
  BY <1>3, <1>4
<1>6. Head(page.items).at # None
  BY <1>5, CaptureFields, PagingAssumption
<1> QED
  BY <1>1, <1>2, <1>3, <1>5, <1>6 DEF EncodeCursor, Within

IsPage(p) ==
    /\ p \in Pages /\ InOrder(p.items) /\ \A i \in 1..Len(p.items) : Listed(p.items[i])
    /\ p.next # None =>
          /\ p.items # <<>> /\ p.next.dir = "next"
          /\ p.next.link = Last(p.items).link
          /\ p.next.at # None => p.next.at = Last(p.items).at /\ p.next.id = Last(p.items).id
          /\ listing.by = "link" => p.next.at # None
    /\ p.previous # None =>
          p.items # <<>> /\ p.previous = EncodeCursor(Head(p.items), "previous")

(* A capture that follows the cursor comes after all that was shown.       *)
LEMMA FollowsLog ==
    ASSUME WalkInv, req # None, Goes(req.cur, "next"), NEW c \in Captures, Follows(c, req.cur)
    PROVE  \A i \in 1..Len(log) : Precedes(log[i], c)
<1>1. /\ log # <<>> /\ Len(log) \in 1..Len(log)
      /\ Last(log) = log[Len(log)] /\ Last(log) \in Captures
      /\ req.cur.link = Last(log).link
      /\ Within(req.cur) => req.cur.at = Last(log).at /\ req.cur.id = Last(log).id
  BY CursorAtEnd
<1>2. Precedes(Last(log), c)
  <2>1. Within(req.cur) /\ Newer(req.cur, c) => Newer(Last(log), c)
    BY <1>1 DEF Newer
  <2> QED
    BY <1>1, <2>1 DEF Follows, Precedes
<1>3. InOrder(log) /\ log \in Seq(Captures)
  BY DEF WalkInv, OrderInv, PagingTypes
<1> SUFFICES ASSUME NEW i \in 1..Len(log) PROVE Precedes(log[i], c)
  OBVIOUS
<1>4. CASE i = Len(log)
  BY <1>1, <1>2, <1>4
<1>5. CASE i # Len(log)
  <2>1. Precedes(log[i], Last(log)) /\ log[i] \in Captures
    BY <1>1, <1>3, <1>5 DEF InOrder
  <2> QED
    BY <1>1, <1>2, <2>1, PrecedesTransitive
<1> QED
  BY <1>4, <1>5

(* A page is shown.                                                        *)
LEMMA AnswerWalk ==
    ASSUME WalkInv, req # None, NEW p, IsPage(p), Answer(p),
           Goes(req.cur, "next") => \A i \in 1..Len(p.items) : Follows(p.items[i], req.cur)
    PROVE  WalkInv' /\ (p.items # <<>> => Last(log') = Last(p.items))
<1>1. /\ UNCHANGED <<conf, table, pending, changes, faults, listing, stable>>
      /\ req' = None /\ page' = p
  BY DEF Answer, tableVars
<1>2. log \in Seq(Captures) /\ p.items \in Seq(Captures) /\ listing # None
  BY DEF WalkInv, PagingTypes, StartInv, IsPage, Pages
<1>3. CASE Goes(req.cur, "previous")
  <2>1. log' = p.items
    BY <1>3 DEF Answer
  <2>2. forward' \in BOOLEAN
    BY DEF Answer
  <2>3. PagingTypes'
    BY <1>1, <1>2, <2>1, <2>2 DEF WalkInv, PagingTypes, IsPage
  <2>4. StartInv'
    BY <1>1, <1>2 DEF StartInv
  <2>5. CursorInv'
    BY <1>1, <2>1 DEF CursorInv, IsPage
  <2>6. OrderInv'
    BY <1>1, <2>1 DEF OrderInv, IsPage, Listed
  <2> QED
    BY <1>1, <2>1, <2>3, <2>4, <2>5, <2>6 DEF WalkInv, RequestInv
<1>4. CASE ~Goes(req.cur, "previous")
  <2>1. log' = log \o p.items
    BY <1>4 DEF Answer
  <2>2. forward' \in BOOLEAN
    BY DEF Answer
  <2>3. /\ log' \in Seq(Captures) /\ Len(log') = Len(log) + Len(p.items)
        /\ Len(log) \in Nat /\ Len(p.items) \in Nat
        /\ \A i \in 1..Len(log) : log'[i] = log[i]
        /\ \A i \in 1..Len(p.items) : log'[Len(log) + i] = p.items[i]
        /\ \A i \in 1..(Len(log) + Len(p.items)) : i > Len(log) =>
              i - Len(log) \in 1..Len(p.items) /\ log'[i] = p.items[i - Len(log)]
    BY <1>2, <2>1, ConcatMeaning
  <2>4. \A i \in 1..Len(log), j \in 1..Len(p.items) : Precedes(log[i], p.items[j])
    <3>1. CASE req.cur = None
      <4>1. log = <<>>
        BY <3>1 DEF WalkInv, StartInv
      <4> QED
        BY <4>1
    <3>2. CASE Goes(req.cur, "next")
      <4>1. \A j \in 1..Len(p.items) : p.items[j] \in Captures /\ Follows(p.items[j], req.cur)
        BY <1>2, <3>2
      <4> QED
        BY <3>2, <4>1, FollowsLog
    <3>3. req.cur = None \/ Goes(req.cur, "next")
      BY <1>4 DEF WalkInv, PagingTypes, Requests, Cursors, Goes
    <3> QED
      BY <3>1, <3>2, <3>3
  <2>5. InOrder(log')
    BY <1>2, <2>1, <2>4, OrderedConcat DEF WalkInv, OrderInv, IsPage
  <2>6. ASSUME NEW i \in 1..Len(log') PROVE Listed(log'[i])
    <3>1. CASE i <= Len(log)
      BY <2>3, <3>1 DEF WalkInv, OrderInv
    <3>2. CASE i > Len(log)
      BY <2>3, <3>2 DEF IsPage
    <3> QED
      BY <2>3, <3>1, <3>2
  <2>7. p.items # <<>> => log' # <<>> /\ Last(log') = Last(p.items)
    <3> SUFFICES ASSUME p.items # <<>> PROVE log' # <<>> /\ Last(log') = Last(p.items)
      OBVIOUS
    <3>1. Len(p.items) \in 1..Len(p.items) /\ Len(log') > 0
      BY <1>2, <2>3
    <3>2. log'[Len(log')] = p.items[Len(p.items)]
      BY <2>3, <3>1
    <3> QED
      BY <3>1, <3>2 DEF Last
  <2>8. PagingTypes'
    BY <1>1, <2>2, <2>3 DEF WalkInv, PagingTypes, IsPage
  <2>9. StartInv'
    BY <1>1, <1>2 DEF StartInv
  <2>10. CursorInv'
    BY <1>1, <2>7 DEF CursorInv, IsPage
  <2>11. OrderInv'
    BY <1>1, <2>5, <2>6 DEF OrderInv, IsPage, Listed
  <2> QED
    BY <1>1, <2>7, <2>8, <2>9, <2>10, <2>11 DEF WalkInv, RequestInv
<1> QED
  BY <1>3, <1>4

(* The cursors of a page.                                                  *)
LEMMA EncodedCursors ==
    ASSUME NEW c \in Captures, NEW dir \in {"next", "previous"}
    PROVE  /\ EncodeCursor(c, dir) \in Cursors /\ EncodeLinkCursor(c, dir) \in Cursors
           /\ EncodeCursor(c, dir) # None /\ EncodeLinkCursor(c, dir) # None
<1>1. c.id \in Nat /\ c.at \in Nat /\ c.link \in Text
  BY CaptureFields
<1>2. EncodeCursor(c, dir) \in Cursors
  BY <1>1 DEF EncodeCursor, Cursors
<1>3. EncodeLinkCursor(c, dir) \in Cursors
  BY <1>1 DEF EncodeLinkCursor, Cursors
<1> QED
  BY <1>2, <1>3, PagingAssumption

(* The ends of what is shown.                                              *)
LEMMA Ends ==
    ASSUME NEW q \in Seq(Captures), q # <<>>
    PROVE  /\ Head(q) \in Captures /\ Last(q) \in Captures /\ Head(q) = q[1]
           /\ Last(q) = q[Len(q)] /\ 1 \in 1..Len(q) /\ Len(q) \in 1..Len(q)
BY DEF Last

(* FindCapturesByLinkPage answers.                                         *)
LEMMA LinkPageWalk ==
    ASSUME WalkInv, FindCapturesByLinkPage
    PROVE  WalkInv'
<1> DEFINE cur == req.cur
           p == LinkPage(listing.link, cur)
<1>1. table \subseteq Captures /\ conf \in Confs
  BY DEF WalkInv, PagingTypes
<1>2. req # None /\ listing.by = "link" /\ Answer(p)
  BY DEF FindCapturesByLinkPage
<1>3. /\ p.items \in Seq(Captures) /\ InOrder(p.items)
      /\ \A i \in 1..Len(p.items) :
            /\ p.items[i].link = listing.link
            /\ Goes(cur, "next") => Newer(cur, p.items[i])
      /\ p.next # None => p.items # <<>> /\ p.next = EncodeCursor(Last(p.items), "next")
      /\ p.previous # None =>
            p.items # <<>> /\ p.previous = EncodeCursor(Head(p.items), "previous")
      /\ p = [items |-> p.items, next |-> p.next, previous |-> p.previous]
  BY <1>1, LinkPageMeaning
<1> HIDE DEF p
<1>4. p.next \in Cursors \cup {None} /\ (p.next # None => p.next.at # None)
  <2>1. CASE p.next # None
    <3>1. Last(p.items) \in Captures
      BY <1>3, <2>1, Ends
    <3>2. p.next.at = Last(p.items).at
      BY <1>3, <2>1 DEF EncodeCursor
    <3> QED
      BY <1>3, <2>1, <3>1, <3>2, EncodedCursors, CaptureFields, PagingAssumption
  <2> QED
    BY <2>1
<1>5. p.previous \in Cursors \cup {None}
  <2>1. CASE p.previous # None
    <3>1. Head(p.items) \in Captures
      BY <1>3, <2>1, Ends
    <3> QED
      BY <1>3, <2>1, <3>1, EncodedCursors
  <2> QED
    BY <2>1
<1>6. p \in Pages
  BY <1>3, <1>4, <1>5 DEF Pages
<1>7. IsPage(p)
  BY <1>2, <1>3, <1>4, <1>6 DEF IsPage, Listed, EncodeCursor
<1>8. ASSUME Goes(cur, "next"), NEW i \in 1..Len(p.items) PROVE Follows(p.items[i], cur)
  <2>1. /\ cur.link = Last(log).link /\ log # <<>> /\ Last(log) = log[Len(log)]
        /\ Len(log) \in 1..Len(log)
    BY <1>2, <1>8, CursorAtEnd
  <2>2. Listed(log[Len(log)])
    BY <2>1 DEF WalkInv, OrderInv
  <2>3. cur.link = listing.link
    BY <1>2, <2>1, <2>2 DEF Listed
  <2>4. Within(cur)
    <3>1. cur = page.next /\ cur # None
      BY <1>2, <1>8, CursorAtEnd DEF Goes
    <3> QED
      BY <1>2, <3>1 DEF WalkInv, CursorInv, Within
  <2> QED
    BY <1>3, <1>8, <2>3, <2>4 DEF Follows
<1> QED
  BY <1>2, <1>7, <1>8, AnswerWalk

(* A request goes on without an answer.                                    *)
LEMMA ContinueWalk ==
    ASSUME WalkInv, req # None, NEW r \in Requests, r.cur = req.cur, Continue(r),
           LinksInv(r), ItemsInv(r)
    PROVE  WalkInv'
<1>1. /\ UNCHANGED <<conf, table, pending, changes, faults, listing, page, log, forward, stable>>
      /\ req' = r
  BY DEF Continue, tableVars
<1>2. r # None
  BY PagingAssumption
<1>3. PagingTypes'
  BY <1>1 DEF WalkInv, PagingTypes
<1>4. StartInv'
  BY <1>1, <1>2 DEF WalkInv, StartInv
<1>5. CursorInv' /\ OrderInv'
  BY <1>1 DEF WalkInv, CursorInv, OrderInv, Listed
<1>6. RequestInv'
  BY <1>1 DEF RequestInv, LinksInv, ItemsInv
<1> QED
  BY <1>3, <1>4, <1>5, <1>6 DEF WalkInv

(* The query whether the cursor's link has captures before the cursor.     *)
LEMMA BeforeMeaning ==
    ASSUME WalkInv, HasRowsBeforeInLink
    PROVE  \E r \in Requests :
              /\ Continue(r) /\ r.cur = req.cur /\ r.stage = "links" /\ r.links = req.links
              /\ r.done = req.done /\ r.items = req.items /\ r.quiet = req.quiet
              /\ r.include <=> GetCapturesByLinkPrev(req.cur.link, 1, req.cur) # <<>>
<1> DEFINE r == [req EXCEPT !.stage = "links",
                            !.include = GetCapturesByLinkPrev(req.cur.link, 1, req.cur) # <<>>]
<1>1. req \in Requests
  BY DEF WalkInv, PagingTypes, HasRowsBeforeInLink
<1>2. r \in Requests
  BY <1>1 DEF Requests
<1>3. Continue(r)
  BY DEF HasRowsBeforeInLink
<1>4. /\ r.cur = req.cur /\ r.stage = "links" /\ r.links = req.links
      /\ r.done = req.done /\ r.items = req.items /\ r.quiet = req.quiet
      /\ r.include <=> GetCapturesByLinkPrev(req.cur.link, 1, req.cur) # <<>>
  BY <1>1 DEF Requests
<1> HIDE DEF r
<1> QED
  BY <1>2, <1>3, <1>4

(* It keeps the invariant.                                                 *)
LEMMA BeforeWalk ==
    ASSUME WalkInv, HasRowsBeforeInLink
    PROVE  WalkInv'
<1>1. req # None /\ req.stage = "before"
  BY DEF HasRowsBeforeInLink
<1>2. PICK r \in Requests :
         /\ Continue(r) /\ r.cur = req.cur /\ r.stage = "links" /\ r.links = req.links
         /\ r.done = req.done /\ r.items = req.items
  BY BeforeMeaning
<1>3. r.links = <<>> /\ r.done = 0 /\ r.items = <<>>
  BY <1>1, <1>2 DEF WalkInv, RequestInv, LinksInv
<1>4. LinksInv(r) /\ ItemsInv(r)
  BY <1>3, FreshRequest DEF WalkInv, PagingTypes
<1> QED
  BY <1>1, <1>2, <1>4, ContinueWalk

(* The query for the links of the page.                                    *)
LEMMA LinksFound ==
    ASSUME WalkInv, FindLinks
    PROVE  \E r \in Requests :
              /\ Continue(r) /\ r.cur = req.cur /\ r.stage = "rows" /\ r.include = req.include
              /\ r.done = 0 /\ r.items = <<>> /\ r.quiet = req.quiet
              /\ ~Goes(req.cur, "previous") => LinksOnwards(r.links, req.cur, r.more.next)
              /\ Goes(req.cur, "previous") => LinksBack(r.links, req.cur, req.include)
<1> DEFINE found == SelectLinks(req.cur, req.include)
           r == [req EXCEPT !.stage = "rows", !.links = found.links,
                            !.more = [previous |-> found.previous, next |-> found.next]]
<1>1. req \in Requests /\ table \subseteq Captures /\ conf \in Confs
  BY DEF WalkInv, PagingTypes, FindLinks
<1>2. /\ req.cur \in Cursors \cup {None} /\ req.include \in BOOLEAN
      /\ Goes(req.cur, "previous") => req.cur \in Cursors
  BY <1>1 DEF Requests, Goes
<1>3. Continue(r)
  BY DEF FindLinks
<1>4. req.done = 0 /\ req.items = <<>>
  BY DEF WalkInv, RequestInv, LinksInv, FindLinks
<1> HIDE DEF found
<1>5. /\ ~Goes(req.cur, "previous") => LinksOnwards(found.links, req.cur, found.next)
      /\ Goes(req.cur, "previous") => LinksBack(found.links, req.cur, req.include)
      /\ found.next \in BOOLEAN /\ found.previous \in BOOLEAN
  <2>1. CASE ~Goes(req.cur, "previous")
    BY <1>1, <1>2, <2>1, SelectOnwards DEF found
  <2>2. CASE Goes(req.cur, "previous")
    BY <1>1, <1>2, <2>2, SelectBack DEF found
  <2> QED
    BY <2>1, <2>2
<1>6. found.links \in Seq(Text)
  BY <1>5 DEF LinksOnwards, LinksBack
<1>7. r \in Requests
  BY <1>1, <1>5, <1>6 DEF Requests
<1>8. /\ r.cur = req.cur /\ r.stage = "rows" /\ r.include = req.include
      /\ r.done = 0 /\ r.items = <<>> /\ r.quiet = req.quiet /\ r.links = found.links
      /\ r.more.next = found.next
  BY <1>1, <1>4 DEF Requests
<1> HIDE DEF r
<1>9. /\ ~Goes(req.cur, "previous") => LinksOnwards(r.links, req.cur, r.more.next)
      /\ Goes(req.cur, "previous") => LinksBack(r.links, req.cur, req.include)
  BY <1>5, <1>8
<1> QED
  BY <1>3, <1>7, <1>8, <1>9

(* What the client looks at by prefix starts with the prefix.              *)
LEMMA CursorUnderPrefix ==
    ASSUME WalkInv, req # None, listing.by = "prefix", req.cur # None
    PROVE  IsPrefix(Prefix, req.cur.link)
<1>1. CASE Goes(req.cur, "next")
  <2>1. Last(log) = log[Len(log)] /\ Len(log) \in 1..Len(log) /\ req.cur.link = Last(log).link
    BY <1>1, CursorAtEnd
  <2>2. Listed(log[Len(log)])
    BY <2>1 DEF WalkInv, OrderInv
  <2> QED
    BY <2>1, <2>2 DEF Listed
<1>2. CASE Goes(req.cur, "previous")
  <2>1. /\ Head(page.items) = page.items[1] /\ 1 \in 1..Len(page.items)
        /\ req.cur.link = Head(page.items).link
    BY <1>2, CursorAtStart
  <2>2. Listed(page.items[1])
    BY <2>1 DEF WalkInv, OrderInv
  <2> QED
    BY <2>1, <2>2 DEF Listed
<1>3. Goes(req.cur, "next") \/ Goes(req.cur, "previous")
  BY DEF WalkInv, PagingTypes, Requests, Cursors, Goes
<1> QED
  BY <1>1, <1>2, <1>3

(* It keeps the invariant.                                                 *)
LEMMA FindLinksWalk ==
    ASSUME WalkInv, FindLinks
    PROVE  WalkInv'
<1>1. req # None /\ listing.by = "prefix" /\ table \subseteq Captures
  BY DEF WalkInv, PagingTypes, FindLinks
<1>2. PICK r \in Requests :
         /\ Continue(r) /\ r.cur = req.cur /\ r.stage = "rows"
         /\ r.done = 0 /\ r.items = <<>>
         /\ ~Goes(req.cur, "previous") => LinksOnwards(r.links, req.cur, r.more.next)
         /\ Goes(req.cur, "previous") => LinksBack(r.links, req.cur, req.include)
  BY LinksFound
<1>3. \A l \in LinksInRange : IsPrefix(Prefix, l)
  BY <1>1, RangeMeaning
<1>4. req.cur # None => IsPrefix(Prefix, req.cur.link)
  BY <1>1, CursorUnderPrefix
<1>5. LinksInv(r)
  <2>1. CASE ~Goes(req.cur, "previous")
    <3>1. LinksOnwards(r.links, req.cur, r.more.next)
      BY <1>2, <2>1
    <3>2. /\ r.links \in Seq(Text) /\ Len(r.links) <= conf.links_per_page_max /\ Climbs(r.links)
          /\ \A k \in 1..Len(r.links) :
                \/ /\ r.links[k] \in LinksInRange
                   /\ Goes(req.cur, "next") =>
                         Less(req.cur.link, r.links[k]) /\ (k = 1 => ~Within(req.cur))
                \/ k = 1 /\ Goes(req.cur, "next") /\ Within(req.cur) /\ r.links[k] = req.cur.link
      BY <3>1 DEF LinksOnwards
    <3>3. r.done <= Len(r.links)
      BY <1>2, <3>2
    <3>4. \A k \in 1..Len(r.links) : IsPrefix(Prefix, r.links[k])
      BY <1>3, <1>4, <3>2 DEF Goes
    <3> QED
      BY <1>2, <2>1, <3>2, <3>3, <3>4 DEF LinksInv
  <2>2. CASE Goes(req.cur, "previous")
    <3>1. LinksBack(r.links, req.cur, req.include)
      BY <1>2, <2>2
    <3>2. /\ r.links \in Seq(Text) /\ Len(r.links) <= conf.links_per_page_max /\ Climbs(r.links)
          /\ \A k \in 1..Len(r.links) :
                \/ r.links[k] \in LinksInRange /\ Less(r.links[k], req.cur.link)
                \/ r.links[k] = req.cur.link
      BY <3>1 DEF LinksBack
    <3>3. r.done <= Len(r.links)
      BY <1>2, <3>2
    <3>4. \A k \in 1..Len(r.links) : IsPrefix(Prefix, r.links[k])
      BY <1>3, <1>4, <2>2, <3>2 DEF Goes
    <3>5. ~Goes(req.cur, "next")
      BY <2>2 DEF Goes
    <3> QED
      BY <1>2, <2>2, <3>2, <3>3, <3>4, <3>5 DEF LinksInv
  <2> QED
    BY <2>1, <2>2
<1>6. ItemsInv(r)
  BY <1>2 DEF ItemsInv, InOrder
<1> QED
  BY <1>1, <1>2, <1>5, <1>6, ContinueWalk

(* One link's rows, all the facts that matter.                             *)
RowsFound(r, a) ==
    /\ a \in Seq(Captures) /\ Len(a) \in Nat /\ Len(a) <= conf.per_link_max /\ InOrder(a)
    /\ \A i \in 1..Len(a) : /\ a[i].link = req.links[req.done + 1]
                            /\ Resumes(req) => Newer(a[i], req.cur)
                            /\ GoesOn(req) => Newer(req.cur, a[i])
    /\ \A c \in table : (/\ c.link = req.links[req.done + 1]
                         /\ Resumes(req) => Newer(c, req.cur)
                         /\ GoesOn(req) => Newer(req.cur, c)) => a # <<>>
    /\ r.cur = req.cur /\ r.stage = req.stage /\ r.include = req.include /\ r.links = req.links
    /\ r.more = req.more /\ r.quiet = req.quiet
    /\ r.done = req.done + 1 /\ r.items = req.items \o a

(* The query for the rows of the next link.                                *)
LEMMA RowsMeaning ==
    ASSUME WalkInv, FindRows
    PROVE  \E r \in Requests : Continue(r) /\ RowsFound(r, Added(req))
<1> DEFINE a == Added(req)
           r == WithRows(req)
           link == req.links[req.done + 1]
<1>1. req \in Requests /\ table \subseteq Captures /\ conf \in Confs /\ Continue(r)
  BY DEF WalkInv, PagingTypes, FindRows
<1>2. /\ a \in Seq(Captures) /\ Len(a) \in Nat /\ Len(a) <= conf.per_link_max /\ InOrder(a)
      /\ \A i \in 1..Len(a) : /\ a[i].link = link
                              /\ Resumes(req) => Newer(a[i], req.cur)
                              /\ GoesOn(req) => Newer(req.cur, a[i])
      /\ \A c \in table : (/\ c.link = link
                           /\ Resumes(req) => Newer(c, req.cur)
                           /\ GoesOn(req) => Newer(req.cur, c)) => a # <<>>
  BY <1>1, AddedMeaning
<1>3. /\ r \in Requests
      /\ r.cur = req.cur /\ r.stage = req.stage /\ r.include = req.include /\ r.links = req.links
      /\ r.more = req.more /\ r.quiet = req.quiet
      /\ r.done = req.done + 1 /\ r.items = req.items \o a
  BY <1>1, <1>2, WithRowsMeaning
<1> HIDE DEF r, a
<1>4. RowsFound(r, a)
  BY <1>2, <1>3 DEF RowsFound
<1> QED
  BY <1>1, <1>3, <1>4 DEF a

(* It keeps the invariant: the rows come after those of the links before.  *)
LEMMA FindRowsWalk ==
    ASSUME WalkInv, FindRows
    PROVE  WalkInv'
<1>1. req # None /\ listing.by = "prefix" /\ req.done < Len(req.links) /\ req.stage = "rows"
  BY DEF FindRows
<1> DEFINE a == Added(req)
           link == req.links[req.done + 1]
<1>2. PICK r \in Requests : Continue(r) /\ RowsFound(r, a)
  BY RowsMeaning
<1> HIDE DEF a
<1>3. /\ a \in Seq(Captures) /\ Len(a) \in Nat /\ InOrder(a)
      /\ \A i \in 1..Len(a) : /\ a[i].link = link
                              /\ Resumes(req) => Newer(a[i], req.cur)
                              /\ GoesOn(req) => Newer(req.cur, a[i])
      /\ r.cur = req.cur /\ r.stage = req.stage /\ r.links = req.links
      /\ r.done = req.done + 1 /\ r.items = req.items \o a
  BY <1>2 DEF RowsFound
<1>4. LinksInv(req) /\ ItemsInv(req)
  BY <1>1 DEF WalkInv, RequestInv
<1>5. /\ req.done \in Nat /\ req.links \in Seq(Text) /\ req.items \in Seq(Captures)
      /\ Len(req.links) \in Nat /\ Len(req.items) \in Nat
      /\ req.cur \in Cursors \cup {None}
  BY <1>1 DEF WalkInv, PagingTypes, Requests
<1>6. req.done + 1 \in 1..Len(req.links) /\ r.done <= Len(r.links) /\ link \in Text
  BY <1>1, <1>3, <1>5
<1>7. LinksInv(r)
  BY <1>1, <1>3, <1>4, <1>6 DEF LinksInv
<1>8. /\ Len(r.items) = Len(req.items) + Len(a)
      /\ \A i \in 1..Len(req.items) : r.items[i] = req.items[i]
      /\ \A i \in 1..(Len(req.items) + Len(a)) : i > Len(req.items) =>
            i - Len(req.items) \in 1..Len(a) /\ r.items[i] = a[i - Len(req.items)]
  BY <1>3, <1>5, ConcatMeaning
<1>9. \A i \in 1..Len(req.items), j \in 1..Len(a) : Precedes(req.items[i], a[j])
  <2> SUFFICES ASSUME NEW i \in 1..Len(req.items), NEW j \in 1..Len(a)
               PROVE  Precedes(req.items[i], a[j])
    OBVIOUS
  <2>1. PICK k \in 1..req.done : req.items[i].link = req.links[k]
    BY <1>4 DEF ItemsInv
  <2>2. k \in 1..Len(req.links) /\ k < req.done + 1
    BY <1>5, <1>6, <2>1
  <2>3. Less(req.links[k], link)
    BY <1>4, <1>6, <2>2 DEF LinksInv, Climbs
  <2> QED
    BY <1>3, <2>1, <2>3 DEF Precedes
<1>10. InOrder(r.items)
  BY <1>3, <1>4, <1>5, <1>9, OrderedConcat DEF ItemsInv
<1>11. ASSUME NEW i \in 1..Len(a)
       PROVE  /\ Goes(r.cur, "next") => Follows(a[i], r.cur)
              /\ Goes(r.cur, "previous") => Leads(a[i], r.cur)
  <2>1. a[i].link = link
    BY <1>3
  <2>2. ASSUME Goes(req.cur, "next") PROVE Follows(a[i], req.cur)
    <3>1. CASE Less(req.cur.link, link)
      BY <2>1, <3>1 DEF Follows
    <3>2. CASE req.done + 1 = 1 /\ Within(req.cur) /\ link = req.cur.link
      <4>1. GoesOn(req)
        BY <1>5, <2>2, <3>2 DEF GoesOn
      <4> QED
        BY <1>3, <2>1, <3>2, <4>1 DEF Follows
    <3> QED
      BY <1>4, <1>6, <2>2, <3>1, <3>2 DEF LinksInv
  <2>3. ASSUME Goes(req.cur, "previous") PROVE Leads(a[i], req.cur)
    <3>1. CASE Less(link, req.cur.link)
      BY <2>1, <3>1 DEF Leads
    <3>2. CASE link = req.cur.link
      <4>1. Within(req.cur)
        BY <1>1, <2>3, CursorAtStart
      <4>2. Resumes(req)
        BY <2>3, <3>2, <4>1 DEF Resumes
      <4> QED
        BY <1>3, <2>1, <3>2, <4>1, <4>2 DEF Leads
    <3> QED
      BY <1>4, <1>6, <2>3, <3>1, <3>2 DEF LinksInv
  <2> QED
    BY <1>3, <2>2, <2>3
<1>12. ASSUME NEW i \in 1..Len(r.items)
       PROVE  /\ \E k \in 1..r.done : r.items[i].link = r.links[k]
              /\ Goes(r.cur, "next") => Follows(r.items[i], r.cur)
              /\ Goes(r.cur, "previous") => Leads(r.items[i], r.cur)
  <2>1. CASE i <= Len(req.items)
    <3>1. i \in 1..Len(req.items) /\ r.items[i] = req.items[i]
      BY <1>5, <1>8, <2>1
    <3>2. PICK k \in 1..req.done : req.items[i].link = req.links[k]
      BY <1>4, <3>1 DEF ItemsInv
    <3>3. k \in 1..r.done
      BY <1>3, <1>5
    <3> QED
      BY <1>3, <1>4, <3>1, <3>2, <3>3 DEF ItemsInv
  <2>2. CASE i > Len(req.items)
    <3>1. i - Len(req.items) \in 1..Len(a) /\ r.items[i] = a[i - Len(req.items)]
      BY <1>5, <1>8, <2>2
    <3>2. r.done \in 1..r.done /\ link = r.links[r.done]
      <4>1. r.done \in Nat /\ r.done >= 1
        BY <1>3, <1>5
      <4> QED
        BY <1>3, <4>1
    <3>3. r.items[i].link = link
      BY <1>3, <3>1
    <3> QED
      BY <1>11, <3>1, <3>2, <3>3
  <2> QED
    BY <1>5, <1>8, <2>1, <2>2
<1>13. ItemsInv(r)
  BY <1>10, <1>12 DEF ItemsInv
<1> QED
  BY <1>1, <1>2, <1>3, <1>7, <1>13, ContinueWalk

(* The page that is made of the rows.                                      *)
LEMMA PrefixPageMeaning ==
    ASSUME NEW r \in Requests, NEW p, p = PrefixPage(r)
    PROVE  /\ p \in Pages /\ p.items = r.items
           /\ p.next # None =>
                 /\ p.items # <<>> /\ p.next.dir = "next" /\ p.next.link = Last(p.items).link
                 /\ p.next.at # None =>
                       p.next.at = Last(p.items).at /\ p.next.id = Last(p.items).id
           /\ p.previous # None =>
                 p.items # <<>> /\ p.previous = EncodeCursor(Head(p.items), "previous")
           /\ r.items # <<>> /\ (r.more.next \/ r.nextWithin) => p.next # None
<1> DEFINE hasNext     == Goes(r.cur, "previous") \/ r.nextWithin \/ r.more.next
           hasPrevious == Goes(r.cur, "next") \/ r.more.previous \/ r.previousWithin
           next     == IF r.items = <<>> \/ ~hasNext THEN None
                       ELSE IF r.nextWithin THEN EncodeCursor(Last(r.items), "next")
                       ELSE EncodeLinkCursor(Last(r.items), "next")
           previous == IF r.items = <<>> \/ ~hasPrevious THEN None
                       ELSE EncodeCursor(Head(r.items), "previous")
<1>1. p = [items |-> r.items, next |-> next, previous |-> previous]
  BY DEF PrefixPage
<1>2. r.items \in Seq(Captures)
  BY DEF Requests
<1>3. r.items # <<>> => /\ EncodeCursor(Last(r.items), "next") \in Cursors
                        /\ EncodeLinkCursor(Last(r.items), "next") \in Cursors
                        /\ EncodeCursor(Last(r.items), "next") # None
                        /\ EncodeLinkCursor(Last(r.items), "next") # None
                        /\ EncodeCursor(Head(r.items), "previous") \in Cursors
  BY <1>2, Ends, EncodedCursors
<1>4. /\ next \in Cursors \cup {None}
      /\ next # None => /\ r.items # <<>> /\ next.dir = "next" /\ next.link = Last(r.items).link
                        /\ next.at # None =>
                              next.at = Last(r.items).at /\ next.id = Last(r.items).id
  BY <1>3 DEF EncodeCursor, EncodeLinkCursor
<1>5. /\ previous \in Cursors \cup {None}
      /\ previous # None => r.items # <<>> /\ previous = EncodeCursor(Head(r.items), "previous")
  BY <1>3
<1>6. r.items # <<>> /\ (r.more.next \/ r.nextWithin) => next # None
  BY <1>3
<1> HIDE DEF next, previous
<1>7. p.items = r.items /\ p.next = next /\ p.previous = previous /\ p \in Pages
  BY <1>1, <1>2, <1>4, <1>5 DEF Pages
<1> QED
  BY <1>4, <1>5, <1>6, <1>7

(* FindCapturesByPrefixPage answers.                                       *)
LEMMA PrefixPageWalk ==
    ASSUME WalkInv, FindCapturesByPrefixPage
    PROVE  WalkInv'
<1> DEFINE p == PrefixPage(req)
<1>1. req # None /\ req \in Requests /\ listing.by = "prefix" /\ Answer(p)
  BY DEF WalkInv, PagingTypes, FindCapturesByPrefixPage
<1>2. /\ p \in Pages /\ p.items = req.items
      /\ p.next # None =>
            /\ p.items # <<>> /\ p.next.dir = "next" /\ p.next.link = Last(p.items).link
            /\ p.next.at # None =>
                  p.next.at = Last(p.items).at /\ p.next.id = Last(p.items).id
      /\ p.previous # None =>
            p.items # <<>> /\ p.previous = EncodeCursor(Head(p.items), "previous")
  BY <1>1, PrefixPageMeaning
<1> HIDE DEF p
<1>3. LinksInv(req) /\ ItemsInv(req)
  BY <1>1 DEF WalkInv, RequestInv
<1>4. ASSUME NEW i \in 1..Len(req.items) PROVE Listed(req.items[i])
  <2>1. PICK k \in 1..req.done : req.items[i].link = req.links[k]
    BY <1>3 DEF ItemsInv
  <2>2. k \in 1..Len(req.links)
    BY <1>1, <1>3 DEF LinksInv, Requests
  <2> QED
    BY <1>1, <1>3, <2>1, <2>2 DEF LinksInv, Listed
<1>5. IsPage(p)
  BY <1>1, <1>2, <1>3, <1>4 DEF IsPage, ItemsInv
<1>6. Goes(req.cur, "next") => \A i \in 1..Len(p.items) : Follows(p.items[i], req.cur)
  BY <1>2, <1>3 DEF ItemsInv
<1> QED
  BY <1>1, <1>5, <1>6, AnswerWalk

(* Storing and purging.                                                    *)
LEMMA StoreWalk ==
    ASSUME WalkInv, NEW c \in Captures, InsertCapture(c) \/ DeleteCapture(c)
    PROVE  WalkInv'
<1>1. table \subseteq Captures /\ pending \subseteq Captures
  BY DEF WalkInv, PagingTypes
<1>2. CASE InsertCapture(c)
  <2>1. Change(table \cup {c}) /\ pending' \subseteq Captures /\ table \cup {c} \subseteq Captures
    BY <1>1, <1>2 DEF InsertCapture
  <2> QED
    BY <2>1, ChangeWalk
<1>3. CASE DeleteCapture(c)
  <2>1. Change(table \ {c}) /\ pending' \subseteq Captures /\ table \ {c} \subseteq Captures
    BY <1>1, <1>3 DEF DeleteCapture
  <2> QED
    BY <2>1, ChangeWalk
<1> QED
  BY <1>2, <1>3

(* Steps that change nothing.                                              *)
LEMMA FrameWalk ==
    ASSUME WalkInv, UNCHANGED vars
    PROVE  WalkInv'
<1>1. UNCHANGED <<conf, table, pending, changes, faults, listing, req, page, log, forward, stable>>
  BY DEF vars
<1>2. PagingTypes' /\ StartInv' /\ CursorInv'
  BY <1>1 DEF WalkInv, PagingTypes, StartInv, CursorInv
<1>3. OrderInv' /\ RequestInv'
  BY <1>1 DEF WalkInv, OrderInv, Listed, RequestInv, LinksInv, ItemsInv
<1> QED
  BY <1>2, <1>3 DEF WalkInv

(* Every step.                                                             *)
LEMMA NextWalk ==
    ASSUME WalkInv, [Next]_vars
    PROVE  WalkInv'
<1>1. ASSUME NEW l \in Listings, Open(l) PROVE WalkInv'
  BY <1>1, OpenWalk
<1>2. CASE Turn(page.next) \/ Turn(page.previous)
  BY <1>2, TurnWalk
<1>3. CASE FindCapturesByLinkPage
  BY <1>3, LinkPageWalk
<1>4. CASE HasRowsBeforeInLink
  BY <1>4, BeforeWalk
<1>5. CASE FindLinks
  BY <1>5, FindLinksWalk
<1>6. CASE FindRows
  BY <1>6, FindRowsWalk
<1>7. CASE FindCapturesByPrefixPage
  BY <1>7, PrefixPageWalk
<1>8. CASE DbError
  BY <1>8, DbErrorWalk
<1>9. ASSUME NEW c \in Captures, InsertCapture(c) \/ DeleteCapture(c) PROVE WalkInv'
  BY <1>9, StoreWalk
<1>10. CASE UNCHANGED vars
  BY <1>10, FrameWalk
<1> QED
  BY <1>1, <1>2, <1>3, <1>4, <1>5, <1>6, <1>7, <1>8, <1>9, <1>10 DEF Next, Finished

(* So it always holds.                                                     *)
LEMMA WalkInvariant == Spec => []WalkInv
<1>1. WalkInv /\ [Next]_vars => WalkInv'
  BY NextWalk
<1> QED
  BY InitWalk, <1>1, PTL DEF Spec

(* The pages a client turns through, one after another, show the captures  *)
(* in the order of the listing and none of them twice, whatever is stored  *)
(* and purged between the queries: FindCapturesByLinkPage and              *)
(* FindCapturesByPrefixPage resume strictly after the cursor.              *)
THEOREM WalkIsInOrder == Spec => []WalkIsOrdered
<1>1. WalkInv => WalkIsOrdered
  <2> SUFFICES ASSUME WalkInv PROVE WalkIsOrdered
    OBVIOUS
  <2>1. log \in Seq(Captures) /\ InOrder(log)
    BY DEF WalkInv, PagingTypes, OrderInv
  <2>2. DOMAIN log = 1..Len(log)
    BY <2>1
  <2> QED
    BY <2>1, <2>2 DEF InOrder, WalkIsOrdered
<1> QED
  BY WalkInvariant, <1>1, PTL

-----------------------------------------------------------------------------
(***************************************************************************)
(* Nothing is missed.                                                      *)
(***************************************************************************)
CompleteInv == WalkInv /\ AheadInv /\ MakingInv

(* What occurs in either part occurs in the whole.                         *)
LEMMA OccursConcat ==
    ASSUME NEW s \in Seq(Captures), NEW t \in Seq(Captures), NEW u, u = s \o t
    PROVE  /\ \A x : Occurs(x, s) \/ Occurs(x, t) => Occurs(x, u)
           /\ \A l : HasLink(s, l) \/ HasLink(t, l) => HasLink(u, l)
<1>1. /\ Len(u) = Len(s) + Len(t) /\ Len(s) \in Nat /\ Len(t) \in Nat
      /\ \A i \in 1..Len(s) : u[i] = s[i] /\ i \in 1..Len(u)
      /\ \A i \in 1..Len(t) : u[Len(s) + i] = t[i] /\ Len(s) + i \in 1..Len(u)
  BY ConcatMeaning
<1>2. ASSUME NEW x, Occurs(x, s) \/ Occurs(x, t) PROVE Occurs(x, u)
  <2>1. CASE Occurs(x, s)
    BY <1>1, <2>1 DEF Occurs
  <2>2. CASE Occurs(x, t)
    <3>1. PICK i \in 1..Len(t) : t[i] = x
      BY <2>2 DEF Occurs
    <3> QED
      BY <1>1, <3>1 DEF Occurs
  <2> QED
    BY <1>2, <2>1, <2>2
<1>3. ASSUME NEW l, HasLink(s, l) \/ HasLink(t, l) PROVE HasLink(u, l)
  <2>1. CASE HasLink(s, l)
    BY <1>1, <2>1 DEF HasLink
  <2>2. CASE HasLink(t, l)
    <3>1. PICK i \in 1..Len(t) : t[i].link = l
      BY <2>2 DEF HasLink
    <3> QED
      BY <1>1, <3>1 DEF HasLink
  <2> QED
    BY <1>3, <2>1, <2>2
<1> QED
  BY <1>2, <1>3

(* Nothing is shown by a step that leaves the page alone.                  *)
LEMMA AheadKept ==
    ASSUME AheadInv, UNCHANGED <<listing, page, log>>, forward' = forward, stable' \subseteq stable,
           (req' = None \/ req'.cur # None) => (req = None \/ req.cur # None)
    PROVE  AheadInv'
BY DEF AheadInv, Listed

(* The first request of a listing.                                         *)
LEMMA OpenComplete ==
    ASSUME CompleteInv, NEW l \in Listings, Open(l)
    PROVE  AheadInv' /\ MakingInv'
<1>1. req' # None /\ req'.cur = None /\ req'.stage # "rows"
  BY RequestMeaning DEF Open
<1> QED
  BY <1>1 DEF AheadInv, MakingInv

(* A request for the next or the previous page.                            *)
LEMMA TurnComplete ==
    ASSUME CompleteInv, NEW cur \in {page.next, page.previous}, Turn(cur)
    PROVE  AheadInv' /\ MakingInv'
<1>1. cur # None /\ cur \in Cursors
  BY DEF CompleteInv, WalkInv, PagingTypes, Pages, Turn
<1>2. req' # None /\ req'.cur = cur /\ req'.stage # "rows"
  BY <1>1, RequestMeaning DEF Turn
<1>3. AheadInv'
  BY AheadKept DEF CompleteInv, Turn
<1> QED
  BY <1>2, <1>3 DEF MakingInv

(* A page by link: what it leaves out is behind its cursor.                *)
LEMMA LinkPageComplete ==
    ASSUME CompleteInv, FindCapturesByLinkPage
    PROVE  AheadInv' /\ MakingInv'
<1> DEFINE cur == req.cur
           p == LinkPage(listing.link, cur)
<1>1. /\ table \subseteq Captures /\ conf \in Confs /\ stable \subseteq table
      /\ log \in Seq(Captures) /\ WalkInv
  BY DEF CompleteInv, WalkInv, PagingTypes
<1>2. /\ req # None /\ listing.by = "link" /\ Answer(p) /\ page' = p /\ req' = None
      /\ listing' = listing /\ stable' = stable
  BY DEF FindCapturesByLinkPage, Answer
<1>3. MakingInv'
  BY <1>2 DEF MakingInv
<1>4. /\ p.items \in Seq(Captures)
      /\ ~Goes(cur, "previous") =>
            \A c \in RowsOf(listing.link) : (Goes(cur, "next") => Newer(cur, c)) =>
               \/ Occurs(c, p.items)
               \/ /\ p.items # <<>> /\ p.next = EncodeCursor(Last(p.items), "next")
                  /\ Newer(Last(p.items), c)
  BY <1>1, LinkPageMeaning
<1> HIDE DEF p
<1>5. SUFFICES ASSUME forward', NEW c \in stable, c.link = listing.link
               PROVE  Occurs(c, log') \/ (page'.next # None /\ Newer(Last(log'), c))
  BY <1>2, <1>3 DEF AheadInv, Listed
<1>6. forward /\ ~Goes(cur, "previous") /\ log' = log \o p.items
  BY <1>2, <1>5 DEF Answer
<1>7. Occurs(c, log) \/ Occurs(c, p.items) => Occurs(c, log')
  BY <1>1, <1>4, <1>6, OccursConcat
<1>8. c \in RowsOf(listing.link)
  BY <1>1, <1>5 DEF RowsOf
<1>9. Goes(cur, "next") /\ ~Newer(cur, c) => Occurs(c, log)
  <2> SUFFICES ASSUME Goes(cur, "next"), ~Newer(cur, c) PROVE Occurs(c, log)
    OBVIOUS
  <2>1. cur # None /\ listing # None
    BY <1>1, <1>2 DEF Goes, WalkInv, StartInv
  <2>2. Occurs(c, log) \/ (page.next # None /\ Newer(Last(log), c))
    BY <1>2, <1>5, <1>6, <2>1 DEF CompleteInv, AheadInv, Listed
  <2>3. Within(cur) /\ cur.at = Last(log).at /\ cur.id = Last(log).id
    <3>1. /\ cur = page.next
          /\ Within(cur) => cur.at = Last(log).at /\ cur.id = Last(log).id
      BY <1>1, <1>2, CursorAtEnd
    <3>2. Within(cur)
      BY <1>1, <1>2, <2>1, <3>1 DEF WalkInv, CursorInv, Within
    <3> QED
      BY <3>1, <3>2
  <2> QED
    BY <2>2, <2>3 DEF Newer
<1>10. CASE Occurs(c, log) \/ Occurs(c, p.items)
  BY <1>7, <1>10
<1>11. CASE ~Occurs(c, log) /\ ~Occurs(c, p.items)
  <2>1. p.items # <<>> /\ p.next = EncodeCursor(Last(p.items), "next") /\ Newer(Last(p.items), c)
    BY <1>4, <1>6, <1>8, <1>9, <1>11
  <2>2. p.next # None
    BY <1>4, <2>1, Ends, EncodedCursors
  <2>3. Last(log') = Last(p.items)
    <3>1. /\ Len(log') = Len(log) + Len(p.items) /\ Len(log) \in Nat /\ Len(p.items) \in Nat
          /\ \A i \in 1..Len(p.items) : log'[Len(log) + i] = p.items[i]
      BY <1>1, <1>4, <1>6, ConcatMeaning
    <3>2. Len(p.items) \in 1..Len(p.items)
      BY <1>4, <2>1, Ends
    <3> QED
      BY <3>1, <3>2 DEF Last
  <2> QED
    BY <1>2, <2>1, <2>2, <2>3
<1> QED
  BY <1>10, <1>11

(* The query whether the cursor's link has captures before the cursor.     *)
LEMMA BeforeComplete ==
    ASSUME CompleteInv, HasRowsBeforeInLink
    PROVE  AheadInv' /\ MakingInv'
<1>1. PICK r \in Requests : Continue(r) /\ r.cur = req.cur /\ r.stage = "links"
  BY BeforeMeaning DEF CompleteInv
<1>2. req' = r
  BY <1>1 DEF Continue
<1>3. AheadInv'
  <2>1. req # None
    BY DEF HasRowsBeforeInLink
  <2>2. r # None
    BY PagingAssumption
  <2> QED
    BY <1>1, <1>2, <2>1, <2>2, AheadKept DEF CompleteInv, Continue
<1> QED
  BY <1>1, <1>2, <1>3 DEF MakingInv

(* The links: each one ahead is on the page or behind its last link.       *)
LEMMA FindLinksComplete ==
    ASSUME CompleteInv, FindLinks
    PROVE  AheadInv' /\ MakingInv'
<1>1. PICK r \in Requests :
         /\ Continue(r) /\ r.cur = req.cur /\ r.stage = "rows" /\ r.done = 0
         /\ ~Goes(req.cur, "previous") => LinksOnwards(r.links, req.cur, r.more.next)
  BY LinksFound DEF CompleteInv
<1>2. /\ req' = r /\ r # None /\ req # None /\ listing.by = "prefix" /\ WalkInv
      /\ UNCHANGED <<listing, page, log, stable>> /\ forward' = forward
      /\ table \subseteq Captures /\ stable \subseteq table
  BY <1>1, PagingAssumption DEF Continue, FindLinks, CompleteInv, WalkInv, PagingTypes
<1>3. AheadInv'
  BY <1>1, <1>2, AheadKept DEF CompleteInv
<1>4. SUFFICES ASSUME forward, ~Goes(req.cur, "previous"), NEW c \in stable,
                      IsPrefix(Prefix, c.link)
               PROVE  \/ HasLink(log, c.link)
                      \/ \E k \in 1..Len(r.links) : k > r.done /\ r.links[k] = c.link
                      \/ r.more.next /\ \A k \in 1..Len(r.links) : Less(r.links[k], c.link)
  BY <1>1, <1>2, <1>3 DEF MakingInv, Listed
<1>5. c.link \in LinksInRange
  BY <1>2, <1>4, RangeMeaning
<1>6. (Goes(req.cur, "next") => Less(req.cur.link, c.link)) =>
         \/ Occurs(c.link, r.links)
         \/ r.more.next /\ \A k \in 1..Len(r.links) : Less(r.links[k], c.link)
  BY <1>1, <1>4, <1>5 DEF LinksOnwards
<1>7. Occurs(c.link, r.links) => \E k \in 1..Len(r.links) : k > r.done /\ r.links[k] = c.link
  BY <1>1 DEF Occurs
<1>8. Goes(req.cur, "next") => HasLink(log, c.link) \/ Less(req.cur.link, c.link)
  <2> SUFFICES ASSUME Goes(req.cur, "next") PROVE HasLink(log, c.link) \/ Less(req.cur.link, c.link)
    OBVIOUS
  <2>1. page.items # <<>> /\ req.cur.link = Last(log).link
    BY <1>2, CursorAtEnd
  <2>2. req.cur # None /\ listing # None
    BY <1>2 DEF Goes, WalkInv, StartInv
  <2>3. \/ page.items = <<>> \/ HasLink(log, c.link)
        \/ page.next # None /\ Less(Last(log).link, c.link)
    BY <1>2, <1>4, <2>2 DEF CompleteInv, AheadInv, Listed
  <2> QED
    BY <2>1, <2>3
<1> QED
  BY <1>6, <1>7, <1>8

(* The rows: a link with captures gets at least one, or has been shown.    *)
LEMMA FindRowsComplete ==
    ASSUME CompleteInv, FindRows
    PROVE  AheadInv' /\ MakingInv'
<1> DEFINE a == Added(req)
           link == req.links[req.done + 1]
<1>1. PICK r \in Requests : Continue(r) /\ RowsFound(r, a)
  BY RowsMeaning DEF CompleteInv
<1> HIDE DEF a
<1>2. /\ req' = r /\ r # None /\ req # None /\ listing.by = "prefix" /\ WalkInv
      /\ UNCHANGED <<listing, page, log, stable>> /\ forward' = forward
      /\ stable \subseteq table /\ req.stage = "rows" /\ req.done < Len(req.links)
  BY <1>1, PagingAssumption DEF Continue, FindRows, CompleteInv, WalkInv, PagingTypes
<1>3. /\ a \in Seq(Captures) /\ Len(a) \in Nat
      /\ \A i \in 1..Len(a) : a[i].link = link
      /\ \A c \in table : (/\ c.link = link
                           /\ Resumes(req) => Newer(c, req.cur)
                           /\ GoesOn(req) => Newer(req.cur, c)) => a # <<>>
      /\ r.cur = req.cur /\ r.stage = req.stage /\ r.links = req.links
      /\ r.more = req.more /\ r.done = req.done + 1 /\ r.items = req.items \o a
  BY <1>1 DEF RowsFound
<1>4. /\ req.done \in Nat /\ req.links \in Seq(Text) /\ req.items \in Seq(Captures)
      /\ Len(req.links) \in Nat
  BY <1>2 DEF WalkInv, PagingTypes, Requests
<1>5. AheadInv'
  BY <1>2, <1>3, AheadKept DEF CompleteInv
<1>6. SUFFICES ASSUME forward, ~Goes(req.cur, "previous"), NEW c \in stable,
                      IsPrefix(Prefix, c.link)
               PROVE  \/ HasLink(log, c.link) \/ HasLink(r.items, c.link)
                      \/ \E k \in 1..Len(r.links) : k > r.done /\ r.links[k] = c.link
                      \/ r.more.next /\ \A k \in 1..Len(r.links) : Less(r.links[k], c.link)
  BY <1>2, <1>3, <1>5 DEF MakingInv, Listed
<1>7. \/ HasLink(log, c.link) \/ HasLink(req.items, c.link)
      \/ \E k \in 1..Len(req.links) : k > req.done /\ req.links[k] = c.link
      \/ req.more.next /\ \A k \in 1..Len(req.links) : Less(req.links[k], c.link)
  BY <1>2, <1>6 DEF CompleteInv, MakingInv, Listed
<1>8. HasLink(req.items, c.link) \/ HasLink(a, c.link) => HasLink(r.items, c.link)
  BY <1>3, <1>4, OccursConcat
<1>9. ASSUME NEW k \in 1..Len(req.links), k > req.done, req.links[k] = c.link
      PROVE  \/ HasLink(log, c.link) \/ HasLink(r.items, c.link)
             \/ k > r.done
  <2>1. CASE k # req.done + 1
    BY <1>3, <1>4, <1>9, <2>1
  <2>2. CASE k = req.done + 1 /\ GoesOn(req)
    <3>1. Goes(req.cur, "next") /\ Within(req.cur) /\ k = 1
      BY <1>4, <2>2 DEF GoesOn
    <3>2. req.links[k] = req.cur.link
      BY <1>2, <1>9, <3>1 DEF WalkInv, RequestInv, LinksInv
    <3>3. req.cur.link = log[Len(log)].link /\ Len(log) \in 1..Len(log)
      BY <1>2, <3>1, CursorAtEnd
    <3> QED
      BY <1>9, <3>2, <3>3 DEF HasLink
  <2>3. CASE k = req.done + 1 /\ ~GoesOn(req)
    <3>1. ~Resumes(req) /\ c \in table /\ c.link = link
      BY <1>2, <1>6, <1>9, <2>3 DEF Resumes
    <3>2. a # <<>>
      BY <1>3, <2>3, <3>1
    <3>3. 1 \in 1..Len(a) /\ a[1].link = link
      BY <1>3, <3>2
    <3>4. HasLink(a, c.link)
      BY <3>1, <3>3 DEF HasLink
    <3> QED
      BY <1>8, <3>4
  <2> QED
    BY <2>1, <2>2, <2>3
<1> QED
  BY <1>3, <1>7, <1>8, <1>9

(* A page by prefix: its cursor leads past the last link that has rows.    *)
LEMMA PrefixPageComplete ==
    ASSUME CompleteInv, FindCapturesByPrefixPage
    PROVE  AheadInv' /\ MakingInv'
<1> DEFINE p == PrefixPage(req)
<1>1. /\ req # None /\ req \in Requests /\ listing.by = "prefix" /\ Answer(p) /\ WalkInv
      /\ log \in Seq(Captures) /\ req.stage = "rows" /\ req.done = Len(req.links)
  BY DEF CompleteInv, WalkInv, PagingTypes, FindCapturesByPrefixPage
<1>2. page' = p /\ req' = None /\ listing' = listing /\ stable' = stable
  BY <1>1 DEF Answer
<1>3. /\ p.items = req.items /\ p.items \in Seq(Captures)
      /\ req.items # <<>> /\ (req.more.next \/ req.nextWithin) => p.next # None
  BY <1>1, PrefixPageMeaning DEF Pages
<1> HIDE DEF p
<1>4. MakingInv'
  BY <1>2 DEF MakingInv
<1>5. SUFFICES ASSUME forward', NEW c \in stable, IsPrefix(Prefix, c.link), p.items # <<>>
               PROVE  HasLink(log', c.link) \/ (p.next # None /\ Less(Last(log').link, c.link))
  BY <1>1, <1>2, <1>4 DEF AheadInv, Listed
<1>6. forward /\ ~Goes(req.cur, "previous") /\ log' = log \o p.items
  BY <1>1, <1>5 DEF Answer
<1>7. HasLink(log, c.link) \/ HasLink(p.items, c.link) => HasLink(log', c.link)
  <2> DEFINE items == p.items
  <2>1. log \in Seq(Captures) /\ items \in Seq(Captures) /\ log' = log \o items
    BY <1>1, <1>3, <1>6
  <2> HIDE DEF items
  <2>2. \A l : HasLink(log, l) \/ HasLink(items, l) => HasLink(log', l)
    BY <2>1, OccursConcat
  <2> QED
    BY <2>2 DEF items
<1>8. \/ HasLink(log, c.link) \/ HasLink(req.items, c.link)
      \/ \E k \in 1..Len(req.links) : k > req.done /\ req.links[k] = c.link
      \/ req.more.next /\ \A k \in 1..Len(req.links) : Less(req.links[k], c.link)
  BY <1>1, <1>5, <1>6 DEF CompleteInv, MakingInv, Listed
<1>9. ~\E k \in 1..Len(req.links) : k > req.done
  BY <1>1 DEF Requests
<1>10. CASE req.more.next /\ \A k \in 1..Len(req.links) : Less(req.links[k], c.link)
  <2>1. p.next # None
    BY <1>3, <1>5, <1>10
  <2>2. Last(p.items) = p.items[Len(p.items)] /\ Len(p.items) \in 1..Len(p.items)
    BY <1>3, <1>5, Ends
  <2>3. /\ Len(log') = Len(log) + Len(p.items) /\ Len(log) \in Nat /\ Len(p.items) \in Nat
        /\ \A i \in 1..Len(p.items) : log'[Len(log) + i] = p.items[i]
    BY <1>1, <1>3, <1>6, ConcatMeaning
  <2>4. Last(log') = Last(p.items)
    BY <2>2, <2>3 DEF Last
  <2>5. PICK k \in 1..req.done : Last(p.items).link = req.links[k]
    BY <1>1, <1>3, <2>2 DEF WalkInv, RequestInv, ItemsInv
  <2> QED
    BY <1>1, <1>10, <2>1, <2>4, <2>5
<1> QED
  BY <1>3, <1>7, <1>8, <1>9, <1>10

(* A query fails.                                                          *)
LEMMA DbErrorComplete ==
    ASSUME CompleteInv, DbError
    PROVE  AheadInv' /\ MakingInv'
<1>1. req' = None /\ UNCHANGED <<page, log, stable>> /\ forward' = forward
  BY DEF DbError
<1>2. CASE req.cur = None
  BY <1>1, <1>2 DEF AheadInv, MakingInv, DbError
<1>3. CASE req.cur # None
  <2>1. listing' = listing
    BY <1>3 DEF DbError
  <2>2. AheadInv'
    BY <1>1, <1>3, <2>1, AheadKept DEF CompleteInv
  <2> QED
    BY <1>1, <2>2 DEF MakingInv
<1> QED
  BY <1>2, <1>3

(* A capture is stored or purged.                                          *)
LEMMA ChangeComplete ==
    ASSUME CompleteInv, NEW rows, Change(rows)
    PROVE  AheadInv' /\ MakingInv'
<1>1. UNCHANGED <<listing, page, log>> /\ forward' = forward /\ stable' \subseteq stable
  BY DEF Change
<1>2. /\ req' = None <=> req = None
      /\ req # None =>
            /\ req'.cur = req.cur /\ req'.stage = req.stage
            /\ req'.links = req.links /\ req'.more = req.more /\ req'.done = req.done
            /\ req'.items = req.items
  <2>1. req \in Requests \cup {None}
    BY DEF CompleteInv, WalkInv, PagingTypes
  <2> QED
    BY <2>1, ChangedRequest
<1>3. AheadInv'
  BY <1>1, <1>2, AheadKept DEF CompleteInv
<1>4. MakingInv'
  BY <1>1, <1>2 DEF CompleteInv, MakingInv, Listed
<1> QED
  BY <1>3, <1>4

(* Every step.                                                             *)
LEMMA NextComplete ==
    ASSUME CompleteInv, [Next]_vars
    PROVE  CompleteInv'
<1>0. WalkInv'
  BY NextWalk DEF CompleteInv
<1> SUFFICES AheadInv' /\ MakingInv'
  BY <1>0 DEF CompleteInv
<1>1. ASSUME NEW l \in Listings, Open(l) PROVE AheadInv' /\ MakingInv'
  BY <1>1, OpenComplete
<1>2. CASE Turn(page.next) \/ Turn(page.previous)
  BY <1>2, TurnComplete
<1>3. CASE FindCapturesByLinkPage
  BY <1>3, LinkPageComplete
<1>4. CASE HasRowsBeforeInLink
  BY <1>4, BeforeComplete
<1>5. CASE FindLinks
  BY <1>5, FindLinksComplete
<1>6. CASE FindRows
  BY <1>6, FindRowsComplete
<1>7. CASE FindCapturesByPrefixPage
  BY <1>7, PrefixPageComplete
<1>8. CASE DbError
  BY <1>8, DbErrorComplete
<1>9. ASSUME NEW c \in Captures, InsertCapture(c) \/ DeleteCapture(c) PROVE AheadInv' /\ MakingInv'
  BY <1>9, ChangeComplete DEF InsertCapture, DeleteCapture
<1>10. CASE UNCHANGED vars
  BY <1>10 DEF CompleteInv, AheadInv, MakingInv, Listed, vars
<1> QED
  BY <1>1, <1>2, <1>3, <1>4, <1>5, <1>6, <1>7, <1>8, <1>9, <1>10 DEF Next, Finished

(* So nothing is ever missed.                                              *)
LEMMA CompleteInvariant == Spec => []CompleteInv
<1>1. Init => CompleteInv
  BY InitWalk DEF Init, CompleteInv, AheadInv, MakingInv
<1>2. CompleteInv /\ [Next]_vars => CompleteInv'
  BY NextComplete
<1> QED
  BY <1>1, <1>2, PTL DEF Spec

(* A client that comes to the last page without turning back has been      *)
(* shown every capture of the link that stayed in the table, or a capture  *)
(* of every link under the prefix, unless a page by prefix came out empty: *)
(* has_next and the cursors of both pages never skip anything.             *)
THEOREM WalkMissesNothing == Spec => []WalkIsComplete
<1>1. CompleteInv => WalkIsComplete
  <2> SUFFICES ASSUME CompleteInv, listing # None, req = None, forward, page.next = None
               PROVE  IF listing.by = "link"
                      THEN \A c \in stable : Listed(c) => c \in ToSet(log)
                      ELSE page.items # <<>> =>
                              \A c \in stable : Listed(c) => c.link \in KeysOf(ToSet(log))
    BY DEF WalkIsComplete
  <2>1. DOMAIN log = 1..Len(log)
    BY DEF CompleteInv, WalkInv, PagingTypes
  <2>2. \A c \in stable : Listed(c) =>
           IF listing.by = "link" THEN Occurs(c, log)
           ELSE page.items = <<>> \/ HasLink(log, c.link)
    BY DEF CompleteInv, AheadInv
  <2>3. \A c : Occurs(c, log) => c \in ToSet(log)
    BY <2>1 DEF Occurs, ToSet
  <2>4. \A l : HasLink(log, l) => l \in KeysOf(ToSet(log))
    BY <2>1 DEF HasLink, KeysOf, ToSet
  <2> QED
    BY <2>2, <2>3, <2>4
<1> QED
  BY CompleteInvariant, <1>1, PTL

-----------------------------------------------------------------------------
(***************************************************************************)
(* Turning back.                                                           *)
(***************************************************************************)
BackInv == WalkInv /\ QuietInv

(* Whether a link has captures before the cursor.                          *)
LEMMA BeforeIsExact ==
    ASSUME table \subseteq Captures, NEW cur
    PROVE  (GetCapturesByLinkPrev(cur.link, 1, cur) # <<>>) <=>
              \E c \in table : c.link = cur.link /\ Newer(c, cur)
<1> DEFINE S == {c \in RowsOf(cur.link) : Newer(c, cur)}
           q == GetCapturesByLinkPrev(cur.link, 1, cur)
<1>1. /\ S \subseteq Captures /\ OneLink(S)
      /\ \A c \in S : c \in table /\ c.link = cur.link /\ Newer(c, cur)
  BY DEF RowsOf, OneLink
<1>2. \A c \in table : c.link = cur.link /\ Newer(c, cur) => c \in S
  BY DEF RowsOf
<1>3. q = Take(OrderedBy(S, Older), 1)
  BY DEF GetCapturesByLinkPrev
<1> HIDE DEF S, q
<1>4. IsQuery(q, S, OlderThan, 1)
  BY <1>1, <1>3, OldestFirst
<1>5. q \in Seq(S)
  BY <1>4 DEF IsQuery
<1>6. q # <<>> => q[1] \in S
  BY <1>5
<1>7. S # {} => q # <<>>
  BY <1>4, <1>5 DEF IsQuery
<1>8. q # <<>> <=> \E c \in table : c.link = cur.link /\ Newer(c, cur)
  BY <1>1, <1>2, <1>6, <1>7
<1> QED
  BY <1>8 DEF q

(* A request for the previous page starts by looking within the link.      *)
LEMMA TurnBack ==
    ASSUME BackInv, NEW cur \in {page.next, page.previous}, Turn(cur)
    PROVE  QuietInv'
<1>1. cur # None /\ cur \in Cursors
  BY DEF BackInv, WalkInv, PagingTypes, Pages, Turn
<1>2. /\ req'.cur = cur /\ req'.stage # "rows"
      /\ (req'.stage = "before") <=> (Goes(cur, "previous") /\ Within(cur))
  BY <1>1, RequestMeaning DEF Turn
<1>3. Goes(cur, "previous") => Within(cur)
  <2> SUFFICES ASSUME Goes(cur, "previous") PROVE Within(cur)
    OBVIOUS
  <2>1. cur = page.previous
    BY <1>1 DEF Goes, BackInv, WalkInv, CursorInv
  <2>2. page.items # <<>> /\ cur = EncodeCursor(Head(page.items), "previous")
    BY <1>1, <2>1 DEF BackInv, WalkInv, CursorInv
  <2>3. Head(page.items) \in Captures
    BY <2>2, Ends DEF BackInv, WalkInv, PagingTypes, Pages
  <2>4. cur.at = Head(page.items).at /\ Head(page.items).at \in Nat
    BY <2>2, <2>3, CaptureFields DEF EncodeCursor
  <2> QED
    BY <1>1, <2>4, PagingAssumption DEF Within
<1> QED
  BY <1>2, <1>3 DEF QuietInv

(* That query tells whether there is something.                            *)
LEMMA BeforeBack ==
    ASSUME BackInv, HasRowsBeforeInLink
    PROVE  QuietInv'
<1>1. PICK r \in Requests :
         /\ Continue(r) /\ r.cur = req.cur /\ r.stage = "links"
         /\ r.include <=> GetCapturesByLinkPrev(req.cur.link, 1, req.cur) # <<>>
  BY BeforeMeaning DEF BackInv
<1>2. req' = r /\ table' = table
  BY <1>1 DEF Continue, tableVars
<1>3. r.include <=> \E c \in table : c.link = req.cur.link /\ Newer(c, req.cur)
  BY <1>1, BeforeIsExact DEF BackInv, WalkInv, PagingTypes
<1> QED
  BY <1>1, <1>2, <1>3 DEF QuietInv

(* The links then reach up to the cursor.                                  *)
LEMMA FindLinksBack ==
    ASSUME BackInv, FindLinks
    PROVE  QuietInv'
<1>1. PICK r \in Requests :
         /\ Continue(r) /\ r.cur = req.cur /\ r.stage = "rows" /\ r.include = req.include
         /\ r.done = 0 /\ r.quiet = req.quiet
         /\ Goes(req.cur, "previous") => LinksBack(r.links, req.cur, req.include)
  BY LinksFound DEF BackInv
<1>2. req' = r /\ table' = table /\ conf' = conf /\ listing' = listing
  BY <1>1 DEF Continue, tableVars
<1>3. req # None /\ listing.by = "prefix" /\ req.stage = "links"
  BY DEF FindLinks
<1> SUFFICES ASSUME r.quiet, Goes(r.cur, "previous")
             PROVE  /\ r.include <=> \E c \in table : c.link = r.cur.link /\ Newer(c, r.cur)
                    /\ LinksBack(r.links, r.cur, r.include)
  BY <1>1, <1>2 DEF QuietInv, LinksBack, LinksInRange
<1> QED
  BY <1>1, <1>3 DEF BackInv, QuietInv

(* Every one of them gets a row.                                           *)
LEMMA FindRowsBack ==
    ASSUME BackInv, FindRows
    PROVE  QuietInv'
<1> DEFINE a == Added(req)
           link == req.links[req.done + 1]
<1>1. PICK r \in Requests : Continue(r) /\ RowsFound(r, a)
  BY RowsMeaning DEF BackInv
<1> HIDE DEF a
<1>2. req' = r /\ table' = table /\ conf' = conf /\ listing' = listing
  BY <1>1 DEF Continue, tableVars
<1>3. /\ req # None /\ listing.by = "prefix" /\ req.stage = "rows" /\ req.done < Len(req.links)
      /\ WalkInv /\ table \subseteq Captures
  BY DEF FindRows, BackInv, WalkInv, PagingTypes
<1>4. /\ a \in Seq(Captures) /\ Len(a) \in Nat
      /\ \A i \in 1..Len(a) : a[i].link = link
      /\ \A c \in table : (/\ c.link = link
                           /\ Resumes(req) => Newer(c, req.cur)
                           /\ GoesOn(req) => Newer(req.cur, c)) => a # <<>>
      /\ r.cur = req.cur /\ r.stage = req.stage /\ r.links = req.links /\ r.include = req.include
      /\ r.quiet = req.quiet /\ r.done = req.done + 1 /\ r.items = req.items \o a
  BY <1>1 DEF RowsFound
<1>5. /\ req.done \in Nat /\ req.links \in Seq(Text) /\ req.items \in Seq(Captures)
      /\ Len(req.links) \in Nat /\ req.cur \in Cursors \cup {None}
  BY <1>3 DEF WalkInv, PagingTypes, Requests
<1> SUFFICES ASSUME r.quiet, Goes(r.cur, "previous")
             PROVE  /\ r.include <=> \E c \in table : c.link = r.cur.link /\ Newer(c, r.cur)
                    /\ LinksBack(r.links, r.cur, r.include)
                    /\ \A k \in 1..r.done : HasLink(r.items, r.links[k])
  BY <1>2 DEF QuietInv, LinksBack, LinksInRange
<1>6. /\ req.include <=> \E c \in table : c.link = req.cur.link /\ Newer(c, req.cur)
      /\ LinksBack(req.links, req.cur, req.include)
      /\ \A k \in 1..req.done : HasLink(req.items, req.links[k])
  BY <1>3, <1>4 DEF BackInv, QuietInv
<1>7. \A l : HasLink(req.items, l) \/ HasLink(a, l) => HasLink(r.items, l)
  BY <1>4, <1>5, OccursConcat
<1>8. req.done + 1 \in 1..Len(req.links) /\ link \in Text
  BY <1>3, <1>5
<1>9. ~GoesOn(req) /\ req.cur.link \in Text
  BY <1>4, <1>5 DEF Goes, GoesOn, Cursors
<1>10. a # <<>>
  <2>1. CASE link \in LinksInRange /\ Less(link, req.cur.link)
    <3>1. PICK c \in table : c.link = link
      BY <2>1 DEF LinksInRange, KeysOf
    <3>2. link # req.cur.link
      BY <1>8, <2>1, LessIrreflexive
    <3>3. ~Resumes(req)
      BY <3>2 DEF Resumes
    <3> QED
      BY <1>4, <1>9, <3>1, <3>3
  <2>2. CASE req.include /\ link = req.cur.link
    <3>1. PICK c \in table : c.link = link /\ Newer(c, req.cur)
      BY <1>6, <2>2
    <3> QED
      BY <1>4, <1>9, <3>1
  <2> QED
    BY <1>6, <1>8, <2>1, <2>2 DEF LinksBack
<1>11. HasLink(r.items, link)
  <2>1. 1 \in 1..Len(a) /\ a[1].link = link
    BY <1>4, <1>10
  <2>2. HasLink(a, link)
    BY <2>1 DEF HasLink
  <2> QED
    BY <1>7, <2>2
<1>12. ASSUME NEW k \in 1..r.done PROVE HasLink(r.items, r.links[k])
  <2>1. k \in 1..req.done \/ k = req.done + 1
    BY <1>4, <1>5
  <2> QED
    BY <1>4, <1>6, <1>7, <1>11, <2>1
<1> QED
  BY <1>4, <1>6, <1>12

(* Every step.                                                             *)
LEMMA NextBack ==
    ASSUME BackInv, [Next]_vars
    PROVE  BackInv'
<1>0. WalkInv'
  BY NextWalk DEF BackInv
<1> SUFFICES QuietInv'
  BY <1>0 DEF BackInv
<1>1. ASSUME NEW l \in Listings, Open(l) PROVE QuietInv'
  <2>1. req'.cur = None
    BY <1>1, RequestMeaning DEF Open
  <2> QED
    BY <2>1 DEF QuietInv, Goes
<1>2. CASE Turn(page.next) \/ Turn(page.previous)
  BY <1>2, TurnBack
<1>3. CASE FindCapturesByLinkPage
  BY <1>3 DEF FindCapturesByLinkPage, Answer, QuietInv
<1>4. CASE HasRowsBeforeInLink
  BY <1>4, BeforeBack
<1>5. CASE FindLinks
  BY <1>5, FindLinksBack
<1>6. CASE FindRows
  BY <1>6, FindRowsBack
<1>7. CASE FindCapturesByPrefixPage
  BY <1>7 DEF FindCapturesByPrefixPage, Answer, QuietInv
<1>8. CASE DbError
  BY <1>8 DEF DbError, QuietInv
<1>9. ASSUME NEW c \in Captures, InsertCapture(c) \/ DeleteCapture(c) PROVE QuietInv'
  <2>1. PICK rows : Change(rows)
    BY <1>9 DEF InsertCapture, DeleteCapture
  <2>2. req \in Requests \cup {None}
    BY DEF BackInv, WalkInv, PagingTypes
  <2>3. (req' = None <=> req = None) /\ (req # None => ~req'.quiet)
    BY <2>1, <2>2, ChangedRequest
  <2> QED
    BY <2>3 DEF QuietInv
<1>10. CASE UNCHANGED vars
  BY <1>10 DEF BackInv, QuietInv, LinksBack, LinksInRange, vars
<1> QED
  BY <1>1, <1>2, <1>3, <1>4, <1>5, <1>6, <1>7, <1>8, <1>9, <1>10 DEF Next, Finished

(* So it always holds.                                                     *)
LEMMA BackInvariant == Spec => []BackInv
<1>1. Init => BackInv
  BY InitWalk DEF Init, BackInv, QuietInv
<1>2. BackInv /\ [Next]_vars => BackInv'
  BY NextBack
<1> QED
  BY <1>1, <1>2, PTL DEF Spec

(* What lies before the cursor lies before the page.                       *)
LEMMA BeforeFirst ==
    ASSUME WalkInv, req # None, Goes(req.cur, "previous"), NEW c \in Captures
    PROVE  Precedes(c, Head(page.items)) <=>
              Less(c.link, req.cur.link) \/ (c.link = req.cur.link /\ Newer(c, req.cur))
<1>1. /\ req.cur.link = Head(page.items).link
      /\ req.cur.at = Head(page.items).at /\ req.cur.id = Head(page.items).id
  BY CursorAtStart
<1>2. Newer(c, req.cur) <=> Newer(c, Head(page.items))
  BY <1>1 DEF Newer
<1> QED
  BY <1>1, <1>2 DEF Precedes

Adjacent(items) ==
    LET first == Head(page.items)
        Before == {c \in table : Listed(c) /\ Precedes(c, first)}
    IN  /\ \A c \in ToSet(items) : Precedes(c, first)
        /\ Before # {} => items # <<>>
        /\ \A c \in Before :
              \/ c \in ToSet(items) \/ Precedes(c, Last(items))
              \/ listing.by = "prefix" /\ c.link = Last(items).link

(* The page before, of a link.                                             *)
LEMMA AdjacentByLink ==
    ASSUME WalkInv, FindCapturesByLinkPage, Goes(req.cur, "previous")
    PROVE  Adjacent(page'.items)
<1> DEFINE cur == req.cur
           p == LinkPage(listing.link, cur)
           items == p.items
<1>1. table \subseteq Captures /\ conf \in Confs
  BY DEF WalkInv, PagingTypes
<1>2. req # None /\ listing.by = "link" /\ page' = p
  BY DEF FindCapturesByLinkPage, Answer
<1>3. /\ p.items \in Seq(Captures)
      /\ \A i \in 1..Len(p.items) : p.items[i].link = listing.link /\ Newer(p.items[i], cur)
      /\ \A c \in RowsOf(listing.link) : Newer(c, cur) =>
            p.items # <<>> /\ (Occurs(c, p.items) \/ Newer(c, Last(p.items)))
  BY <1>1, LinkPageMeaning
<1> HIDE DEF p
<1>4. cur.link = listing.link /\ cur.link \in Text
  <2>1. /\ Head(page.items) = page.items[1] /\ 1 \in 1..Len(page.items)
        /\ cur.link = Head(page.items).link /\ Head(page.items) \in Captures
    BY <1>2, CursorAtStart
  <2>2. Listed(page.items[1])
    BY <2>1 DEF WalkInv, OrderInv
  <2> QED
    BY <1>2, <2>1, <2>2, CaptureFields DEF Listed
<1>5. ToSet(items) = {items[i] : i \in 1..Len(items)}
  BY <1>3 DEF ToSet
<1>6. ASSUME NEW c \in ToSet(items) PROVE Precedes(c, Head(page.items))
  <2>1. PICK i \in 1..Len(items) : c = items[i]
    BY <1>5
  <2>2. c \in Captures /\ c.link = cur.link /\ Newer(c, cur)
    BY <1>3, <1>4, <2>1
  <2> QED
    BY <1>2, <2>2, BeforeFirst
<1>7. ASSUME NEW c \in table, Listed(c), Precedes(c, Head(page.items))
      PROVE  items # <<>> /\ (c \in ToSet(items) \/ Precedes(c, Last(items)))
  <2>1. c.link = listing.link /\ c \in Captures
    BY <1>1, <1>2, <1>7 DEF Listed
  <2>2. ~Less(c.link, cur.link)
    BY <1>4, <2>1, LessIrreflexive
  <2>3. Newer(c, cur)
    BY <1>2, <1>7, <2>1, <2>2, BeforeFirst
  <2>4. items # <<>> /\ (Occurs(c, items) \/ Newer(c, Last(items)))
    BY <1>3, <2>1, <2>3 DEF RowsOf
  <2>5. Last(items).link = listing.link
    BY <1>3, <2>4, Ends
  <2>6. Occurs(c, items) => c \in ToSet(items)
    BY <1>5 DEF Occurs
  <2> QED
    BY <2>1, <2>4, <2>5, <2>6 DEF Precedes
<1> HIDE DEF items
<1>8. Adjacent(items)
  BY <1>6, <1>7 DEF Adjacent
<1> QED
  BY <1>2, <1>8 DEF items

(* The page before, by prefix: it ends with the last of its links.         *)
LEMMA AdjacentByPrefix ==
    ASSUME BackInv, FindCapturesByPrefixPage, Goes(req.cur, "previous"), req.quiet
    PROVE  Adjacent(page'.items)
<1> DEFINE cur == req.cur
           items == req.items
           n == Len(req.links)
<1>1. /\ table \subseteq Captures /\ WalkInv /\ req # None /\ req \in Requests
      /\ listing.by = "prefix" /\ req.stage = "rows" /\ req.done = n
  BY DEF BackInv, WalkInv, PagingTypes, FindCapturesByPrefixPage
<1>2. page'.items = items
  BY <1>1, PrefixPageMeaning DEF FindCapturesByPrefixPage, Answer
<1>3. /\ items \in Seq(Captures) /\ req.links \in Seq(Text) /\ n \in Nat /\ cur.link \in Text
      /\ LinksInv(req) /\ ItemsInv(req)
  BY <1>1 DEF WalkInv, RequestInv, Requests, Goes, Cursors
<1>4. /\ req.include <=> \E c \in table : c.link = cur.link /\ Newer(c, cur)
      /\ LinksBack(req.links, cur, req.include)
      /\ \A k \in 1..n : HasLink(items, req.links[k])
  BY <1>1 DEF BackInv, QuietInv
<1>5. ToSet(items) = {items[i] : i \in 1..Len(items)}
  BY <1>3 DEF ToSet
<1>6. ASSUME NEW c \in ToSet(items) PROVE Precedes(c, Head(page.items))
  <2>1. PICK i \in 1..Len(items) : c = items[i]
    BY <1>5
  <2>2. c \in Captures /\ Leads(c, cur)
    BY <1>3, <2>1 DEF ItemsInv
  <2> QED
    BY <1>1, <2>2, BeforeFirst DEF Leads
<1>7. ASSUME NEW c \in table, Listed(c), Precedes(c, Head(page.items))
      PROVE  /\ items # <<>>
             /\ Precedes(c, Last(items)) \/ c.link = Last(items).link
  <2>1. c \in Captures /\ c.link \in LinksInRange /\ c.link \in Text
    BY <1>1, <1>7, RangeMeaning, CaptureFields DEF Listed
  <2>2. Less(c.link, cur.link) \/ (c.link = cur.link /\ Newer(c, cur))
    BY <1>1, <1>7, <2>1, BeforeFirst
  <2>3. /\ req.links # <<>>
        /\ c.link = req.links[n] \/ Less(c.link, req.links[n])
    <3>1. CASE Less(c.link, cur.link)
      <4>1. req.links # <<>> /\ (Occurs(c.link, req.links) \/ Less(c.link, req.links[n]))
        BY <1>4, <2>1, <3>1 DEF LinksBack
      <4>2. Occurs(c.link, req.links) => c.link = req.links[n] \/ Less(c.link, req.links[n])
        <5> SUFFICES ASSUME NEW k \in 1..n, req.links[k] = c.link
                     PROVE  c.link = req.links[n] \/ Less(c.link, req.links[n])
          BY DEF Occurs
        <5>1. k = n \/ (k < n /\ n \in 1..n)
          BY <1>3
        <5> QED
          BY <1>3, <5>1 DEF LinksInv, Climbs
      <4> QED
        BY <4>1, <4>2
    <3>2. CASE c.link = cur.link /\ Newer(c, cur)
      BY <1>4, <3>2 DEF LinksBack
    <3> QED
      BY <2>2, <3>1, <3>2
  <2>4. n \in 1..n
    BY <1>3, <2>3
  <2>5. PICK i \in 1..Len(items) : items[i].link = req.links[n]
    BY <1>4, <2>4 DEF HasLink
  <2>6. items # <<>>
    BY <1>3, <2>5
  <2> DEFINE last == Len(items)
  <2>7. last \in 1..last /\ Last(items) = items[last]
    BY <1>3, <2>6, Ends
  <2>8. items[last].link = req.links[n]
    <3>1. PICK k \in 1..n : items[last].link = req.links[k]
      BY <1>1, <1>3, <2>7 DEF ItemsInv
    <3>2. CASE k = n
      BY <3>1, <3>2
    <3>3. CASE k < n /\ i = last
      BY <2>5, <3>3
    <3>4. CASE k < n /\ i < last
      <4>1. Precedes(items[i], items[last])
        BY <1>3, <2>7, <3>4 DEF ItemsInv, InOrder
      <4>2. Less(req.links[n], req.links[k]) \/ req.links[n] = req.links[k]
        BY <2>5, <3>1, <4>1 DEF Precedes
      <4>3. Less(req.links[k], req.links[n])
        BY <1>3, <2>4, <3>4 DEF LinksInv, Climbs
      <4>4. req.links[k] \in Text /\ req.links[n] \in Text
        BY <1>3, <2>4
      <4> QED
        BY <4>2, <4>3, <4>4, LessTransitive, LessIrreflexive
    <3>5. (k = n \/ k < n) /\ (i = last \/ i < last)
      BY <1>3, <2>7
    <3> QED
      BY <3>2, <3>3, <3>4, <3>5
  <2> QED
    BY <2>3, <2>6, <2>7, <2>8 DEF Precedes
<1> HIDE DEF items
<1>8. Adjacent(items)
  BY <1>1, <1>6, <1>7 DEF Adjacent
<1> QED
  BY <1>2, <1>8

(* The page before ends where the page starts: the Prev queries, turned    *)
(* around, with the link of the cursor included if it has rows before the  *)
(* cursor, leave no capture of a link and no link of a prefix in between.  *)
THEOREM TurningBackIsAdjacent == Spec => PreviousIsAdjacent
<1> DEFINE Answered == /\ req # None /\ req' = None /\ faults' = faults /\ req.quiet
                       /\ Goes(req.cur, "previous")
<1>1. ASSUME BackInv, [Next]_vars, Answered
      PROVE  Adjacent(page'.items)
  <2>1. req # None /\ req' = None /\ faults' = faults /\ req.quiet /\ Goes(req.cur, "previous")
    BY <1>1
  <2>2. WalkInv
    BY <1>1 DEF BackInv
  <2>3. ASSUME NEW r \in Requests, Continue(r) PROVE FALSE
    BY <2>1, <2>3, PagingAssumption DEF Continue
  <2>4. ~HasRowsBeforeInLink
    BY <2>2, <2>3, BeforeMeaning
  <2>5. ~FindLinks
    BY <2>2, <2>3, LinksFound
  <2>6. ~FindRows
    BY <2>2, <2>3, RowsMeaning
  <2>7. ~DbError
    <3>1. faults \in Nat
      BY PagingAssumption, <2>2 DEF WalkInv, PagingTypes
    <3> QED
      BY <2>1, <3>1 DEF DbError
  <2>8. \A l \in Listings : ~Open(l)
    BY <2>1, <2>2 DEF Open, WalkInv, StartInv
  <2>9. ~Turn(page.next) /\ ~Turn(page.previous)
    BY <2>1 DEF Turn
  <2>10. ASSUME NEW c \in Captures, InsertCapture(c) \/ DeleteCapture(c) PROVE FALSE
    <3>1. PICK rows : Change(rows)
      BY <2>10 DEF InsertCapture, DeleteCapture
    <3>2. req \in Requests \cup {None}
      BY <2>2 DEF WalkInv, PagingTypes
    <3> QED
      BY <2>1, <3>1, <3>2, ChangedRequest
  <2>11. ~UNCHANGED vars
    BY <2>1 DEF vars
  <2>12. FindCapturesByLinkPage \/ FindCapturesByPrefixPage
    BY <1>1, <2>4, <2>5, <2>6, <2>7, <2>8, <2>9, <2>10, <2>11 DEF Next, Finished
  <2> QED
    BY <1>1, <2>1, <2>2, <2>12, AdjacentByLink, AdjacentByPrefix
<1>2. BackInv /\ [Next]_vars =>
         [(Answered) =>
            LET first == Head(page.items)
                items == page'.items
                Before == {c \in table : Listed(c) /\ Precedes(c, first)}
            IN  /\ \A c \in ToSet(items) : Precedes(c, first)
                /\ Before # {} => items # <<>>
                /\ \A c \in Before :
                      \/ c \in ToSet(items) \/ Precedes(c, Last(items))
                      \/ listing.by = "prefix" /\ c.link = Last(items).link ]_vars
  BY <1>1 DEF Adjacent
<1> QED
  BY BackInvariant, <1>2, PTL DEF Spec, PreviousIsAdjacent

-----------------------------------------------------------------------------
(***************************************************************************)
(* Pages keep to their size.                                               *)
(***************************************************************************)
SizesInv == WalkInv /\ SizeInv

(* Nothing has no size.                                                    *)
LEMMA EmptySizes ==
    ASSUME NEW q, q = <<>>
    PROVE  /\ \A l : Cardinality(OfLink(q, l)) = 0
           /\ Cardinality(KeysOf(ToSet(q))) = 0 /\ Len(q) = 0
<1>1. \A l : OfLink(q, l) = {}
  BY DEF OfLink
<1>2. KeysOf(ToSet(q)) = {}
  BY DEF KeysOf, ToSet
<1> QED
  BY <1>1, <1>2, FS_EmptySet

(* A sequence of a link's captures has at most its length of them.         *)
LEMMA OfLinkBound ==
    ASSUME NEW s \in Seq(Captures), NEW t \in Seq(Captures), NEW l, NEW m \in Nat,
           \A i \in 1..Len(s) : s[i].link # l, Len(t) <= m, NEW u, u = s \o t
    PROVE  Cardinality(OfLink(u, l)) <= m
<1>1. /\ Len(u) = Len(s) + Len(t) /\ Len(s) \in Nat /\ Len(t) \in Nat
      /\ \A i \in 1..Len(s) : u[i] = s[i]
  BY ConcatMeaning
<1> DEFINE I == (Len(s) + 1)..(Len(s) + Len(t))
<1>2. OfLink(u, l) \subseteq I
  BY <1>1 DEF OfLink
<1>3. IsFiniteSet(I) /\ Cardinality(I) = Len(t)
  <2>1. Len(s) + 1 \in Int /\ Len(s) + Len(t) \in Int
    BY <1>1
  <2>2. IsFiniteSet(I) /\ Cardinality(I) = IF Len(s) + 1 > Len(s) + Len(t) THEN 0
                                            ELSE (Len(s) + Len(t)) - (Len(s) + 1) + 1
    BY <2>1, FS_Interval
  <2> QED
    BY <1>1, <2>2
<1> HIDE DEF I
<1>4. Cardinality(OfLink(u, l)) <= Cardinality(I) /\ IsFiniteSet(OfLink(u, l))
  BY <1>2, <1>3, FS_Subset
<1>5. Cardinality(OfLink(u, l)) \in Nat
  BY <1>4, FS_CardinalityType
<1> QED
  BY <1>1, <1>3, <1>4, <1>5

(* Captures of another link do not count.                                  *)
LEMMA OfOtherLink ==
    ASSUME NEW s \in Seq(Captures), NEW t \in Seq(Captures), NEW l,
           \A i \in 1..Len(t) : t[i].link # l
    PROVE  OfLink(s \o t, l) = OfLink(s, l)
<1> DEFINE u == s \o t
<1> HIDE DEF u
<1>1. /\ Len(u) = Len(s) + Len(t) /\ Len(s) \in Nat /\ Len(t) \in Nat
      /\ \A i \in 1..Len(s) : u[i] = s[i]
      /\ \A i \in 1..(Len(s) + Len(t)) : i > Len(s) =>
            i - Len(s) \in 1..Len(t) /\ u[i] = t[i - Len(s)]
  BY ConcatMeaning DEF u
<1>2. ASSUME NEW i \in 1..Len(u), u[i].link = l PROVE i \in 1..Len(s)
  BY <1>1, <1>2
<1>3. \A i \in 1..Len(s) : i \in 1..Len(u)
  BY <1>1
<1> QED
  BY <1>1, <1>2, <1>3 DEF OfLink, u

(* Every link's rows are counted once.                                     *)
LEMMA FindRowsSize ==
    ASSUME SizesInv, FindRows
    PROVE  SizeInv'
<1> DEFINE a == Added(req)
           link == req.links[req.done + 1]
<1>1. PICK r \in Requests : Continue(r) /\ RowsFound(r, a)
  BY RowsMeaning DEF SizesInv
<1> HIDE DEF a
<1>2. /\ req # None /\ req \in Requests /\ WalkInv /\ req.done < Len(req.links) /\ conf \in Confs
      /\ LinksInv(req) /\ ItemsInv(req)
  BY DEF SizesInv, WalkInv, PagingTypes, RequestInv, FindRows
<1>3. req' = r /\ conf' = conf /\ listing' = listing /\ page' = page
  BY <1>1 DEF Continue, tableVars
<1>4. /\ a \in Seq(Captures) /\ Len(a) <= conf.per_link_max
      /\ \A i \in 1..Len(a) : a[i].link = link
      /\ r.items = req.items \o a
  BY <1>1 DEF RowsFound
<1>5. /\ req.done \in Nat /\ req.links \in Seq(Text) /\ req.items \in Seq(Captures)
      /\ Len(req.links) \in Nat /\ conf.per_link_max \in Nat
  BY <1>2, Limits DEF Requests
<1>6. \A i \in 1..Len(req.items) : req.items[i].link # link
  <2> SUFFICES ASSUME NEW i \in 1..Len(req.items) PROVE req.items[i].link # link
    OBVIOUS
  <2>1. PICK k \in 1..req.done : req.items[i].link = req.links[k]
    BY <1>2 DEF ItemsInv
  <2>2. k \in 1..Len(req.links) /\ req.done + 1 \in 1..Len(req.links) /\ k < req.done + 1
    BY <1>2, <1>5, <2>1
  <2>3. Less(req.links[k], link)
    BY <1>2, <2>2 DEF LinksInv, Climbs
  <2>4. link \in Text
    BY <1>5, <2>2
  <2> QED
    BY <2>1, <2>3, <2>4, LessIrreflexive
<1>7. ASSUME NEW l \in Text PROVE Cardinality(OfLink(r.items, l)) <= conf.per_link_max
  <2> DEFINE items == req.items
             all == r.items
  <2>0. items \in Seq(Captures) /\ all = items \o a
    BY <1>4, <1>5
  <2>1. CASE l = link
    <3>1. \A i \in 1..Len(items) : items[i].link # l
      BY <1>6, <2>1
    <3> HIDE DEF items, all
    <3>2. Cardinality(OfLink(all, l)) <= conf.per_link_max
      BY <1>4, <1>5, <2>0, <3>1, OfLinkBound
    <3> QED
      BY <3>2 DEF all
  <2>2. CASE l # link
    <3>1. \A i \in 1..Len(a) : a[i].link # l
      BY <1>4, <2>2
    <3> HIDE DEF items, all
    <3>2. a \in Seq(Captures)
      BY <1>4
    <3>3. OfLink(items \o a, l) = OfLink(items, l)
      BY <2>0, <3>1, <3>2, OfOtherLink
    <3>4. OfLink(all, l) = OfLink(items, l)
      BY <2>0, <3>3
    <3> QED
      BY <1>2, <3>4 DEF SizesInv, SizeInv, all, items
  <2> QED
    BY <2>1, <2>2
<1> QED
  BY <1>3, <1>7 DEF SizesInv, SizeInv

(* A page by prefix has no more links than were selected.                  *)
LEMMA PrefixPageSize ==
    ASSUME SizesInv, FindCapturesByPrefixPage
    PROVE  SizeInv'
<1> DEFINE links == req.links
           items == req.items
           n == Len(links)
           Keys == KeysOf(ToSet(items))
           Some == {links[k] : k \in 1..n}
<1>1. /\ req # None /\ req \in Requests /\ WalkInv /\ conf \in Confs /\ listing.by = "prefix"
      /\ LinksInv(req) /\ ItemsInv(req) /\ req.done = n
  BY DEF SizesInv, WalkInv, PagingTypes, RequestInv, FindCapturesByPrefixPage
<1>2. page'.items = items
  BY <1>1, PrefixPageMeaning DEF FindCapturesByPrefixPage, Answer
<1>3. req' = None /\ conf' = conf /\ listing' = listing
  BY DEF FindCapturesByPrefixPage, Answer, tableVars
<1>4. items \in Seq(Captures) /\ n \in Nat /\ n <= conf.links_per_page_max
  BY <1>1 DEF Requests, LinksInv
<1>5. Keys \subseteq Some
  <2> SUFFICES ASSUME NEW l \in Keys PROVE l \in Some
    OBVIOUS
  <2>1. PICK i \in 1..Len(items) : l = items[i].link
    BY <1>4 DEF KeysOf, ToSet
  <2> QED
    BY <1>1, <2>1 DEF ItemsInv
<1>6. IsFiniteSet(Some) /\ Cardinality(Some) <= n
  <2>1. IsFiniteSet(1..n) /\ Cardinality(1..n) = n
    BY <1>4, FS_Interval
  <2>2. [k \in 1..n |-> links[k]] \in Surjection(1..n, Some)
    BY DEF Surjection
  <2> HIDE DEF Some
  <2> QED
    BY <2>1, <2>2, FS_Surjection
<1> HIDE DEF Some, Keys
<1>7. Cardinality(Keys) <= Cardinality(Some) /\ IsFiniteSet(Keys)
  BY <1>5, <1>6, FS_Subset
<1>8. Cardinality(Keys) <= conf.links_per_page_max
  <2>1. Cardinality(Keys) \in Nat /\ Cardinality(Some) \in Nat /\ conf.links_per_page_max \in Nat
    BY <1>1, <1>6, <1>7, FS_CardinalityType, Limits
  <2> QED
    BY <1>4, <1>6, <1>7, <2>1
<1>9. \A l \in Text : Cardinality(OfLink(items, l)) <= conf.per_link_max
  BY <1>1 DEF SizesInv, SizeInv
<1> QED
  BY <1>1, <1>2, <1>3, <1>8, <1>9 DEF SizeInv, Keys

(* A page by link has no more rows than are kept.                          *)
LEMMA LinkPageSize ==
    ASSUME SizesInv, FindCapturesByLinkPage
    PROVE  SizeInv'
<1>1. table \subseteq Captures /\ conf \in Confs
  BY DEF SizesInv, WalkInv, PagingTypes
<1> DEFINE p == LinkPage(listing.link, req.cur)
<1>2. /\ listing.by = "link" /\ page' = p
      /\ req' = None /\ listing' = listing /\ conf' = conf
  BY DEF FindCapturesByLinkPage, Answer, tableVars
<1>3. Len(p.items) <= conf.page_max
  BY <1>1, LinkPageMeaning
<1> QED
  BY <1>2, <1>3 DEF SizeInv

(* Before the first page nothing has a size.                               *)
LEMMA StartSize ==
    ASSUME conf \in Confs, page = NoPage, req = None \/ req.items = <<>>
    PROVE  SizeInv
<1>1. page.items = <<>>
  BY NoPageMeaning
<1>2. 0 <= conf.page_max /\ 0 <= conf.per_link_max /\ 0 <= conf.links_per_page_max
  BY Limits
<1> QED
  BY <1>1, <1>2, EmptySizes DEF SizeInv

(* Every step.                                                             *)
LEMMA NextSize ==
    ASSUME SizesInv, [Next]_vars
    PROVE  SizesInv'
<1>0. WalkInv'
  BY NextWalk DEF SizesInv
<1> SUFFICES SizeInv'
  BY <1>0 DEF SizesInv
<1>00. conf \in Confs /\ 0 <= conf.per_link_max /\ WalkInv
  BY Limits DEF SizesInv, WalkInv, PagingTypes
<1>1. ASSUME NEW l \in Listings, Open(l) PROVE SizeInv'
  <2>1. (conf \in Confs /\ page = NoPage /\ req.items = <<>>)'
    BY <1>00, <1>1, RequestMeaning DEF Open, tableVars, WalkInv, StartInv
  <2>2. (page.items = <<>>)'
    BY <2>1, NoPageMeaning
  <2>3. (0 <= conf.page_max /\ 0 <= conf.per_link_max /\ 0 <= conf.links_per_page_max)'
    BY <1>00, <1>1, Limits DEF Open, tableVars
  <2> QED
    BY <2>1, <2>2, <2>3, EmptySizes DEF SizeInv
<1>2. ASSUME NEW cur \in {page.next, page.previous}, Turn(cur) PROVE SizeInv'
  <2>1. cur \in Cursors \cup {None}
    BY <1>00 DEF WalkInv, PagingTypes, Pages
  <2>2. req'.items = <<>> /\ conf' = conf /\ listing' = listing /\ page' = page
    BY <1>2, <2>1, RequestMeaning DEF Turn, tableVars
  <2> QED
    BY <1>00, <2>2, EmptySizes DEF SizesInv, SizeInv
<1>3. CASE FindCapturesByLinkPage
  BY <1>3, LinkPageSize
<1>4. CASE HasRowsBeforeInLink
  <2>1. PICK r \in Requests : Continue(r) /\ r.items = req.items
    BY <1>00, <1>4, BeforeMeaning
  <2> QED
    BY <1>4, <2>1 DEF Continue, tableVars, SizesInv, SizeInv, HasRowsBeforeInLink
<1>5. CASE FindLinks
  <2>1. PICK r \in Requests : Continue(r) /\ r.items = <<>>
    BY <1>00, <1>5, LinksFound
  <2>2. req'.items = <<>> /\ conf' = conf /\ listing' = listing /\ page' = page
    BY <2>1 DEF Continue, tableVars
  <2> QED
    BY <1>00, <2>2, EmptySizes DEF SizesInv, SizeInv
<1>6. CASE FindRows
  BY <1>6, FindRowsSize
<1>7. CASE FindCapturesByPrefixPage
  BY <1>7, PrefixPageSize
<1>8. CASE DbError
  <2>1. CASE req.cur = None
    BY <1>8, <2>1 DEF DbError, SizeInv
  <2>2. CASE req.cur # None
    BY <1>8, <2>2 DEF DbError, tableVars, SizesInv, SizeInv
  <2> QED
    BY <2>1, <2>2
<1>9. ASSUME NEW c \in Captures, InsertCapture(c) \/ DeleteCapture(c) PROVE SizeInv'
  <2>1. PICK rows : Change(rows)
    BY <1>9 DEF InsertCapture, DeleteCapture
  <2>2. req \in Requests \cup {None}
    BY <1>00 DEF WalkInv, PagingTypes
  <2>3. (req' = None <=> req = None) /\ (req # None => req'.items = req.items)
    BY <2>1, <2>2, ChangedRequest
  <2> QED
    BY <2>1, <2>3 DEF Change, SizesInv, SizeInv
<1>10. CASE UNCHANGED vars
  BY <1>10 DEF SizesInv, SizeInv, vars
<1> QED
  BY <1>1, <1>2, <1>3, <1>4, <1>5, <1>6, <1>7, <1>8, <1>9, <1>10 DEF Next, Finished

(* Cursors, requests and pages are well formed, and a page never exceeds   *)
(* page_max, links_per_page_max or per_link_max, though the queries ask    *)
(* for one more than that.                                                 *)
THEOREM PagingIsTyped == Spec => []TypeOK
<1>1. Init => SizesInv
  <2> SUFFICES ASSUME Init PROVE SizesInv
    OBVIOUS
  <2>1. WalkInv
    BY InitWalk
  <2>2. SizeInv
    BY <2>1, StartSize DEF Init, WalkInv, PagingTypes
  <2> QED
    BY <2>1, <2>2 DEF SizesInv
<1>2. SizesInv /\ [Next]_vars => SizesInv'
  BY NextSize
<1>3. SizesInv => TypeOK
  <2> SUFFICES ASSUME SizesInv PROVE TypeOK
    OBVIOUS
  <2>1. PagingTypes /\ WalkInv
    BY DEF SizesInv, WalkInv
  <2>2. page.items \in Seq(Captures) /\ DOMAIN page.items = 1..Len(page.items)
    BY <2>1 DEF PagingTypes, Pages
  <2>3. page # NoPage => listing # None
    BY <2>1 DEF WalkInv, StartInv
  <2>4. \A c \in ToSet(page.items) : Listed(c)
    BY <2>1, <2>2 DEF ToSet, WalkInv, OrderInv
  <2>5. ASSUME NEW l \in KeysOf(ToSet(page.items))
        PROVE  /\ l \in Text
               /\ OfLink(page.items, l) = {i \in DOMAIN page.items : page.items[i].link = l}
    <3>1. PICK i \in 1..Len(page.items) : l = page.items[i].link
      BY <2>2 DEF KeysOf, ToSet
    <3> QED
      BY <2>2, <3>1, CaptureFields DEF OfLink
  <2>6. page # NoPage =>
           /\ listing.by = "link" => Len(page.items) <= conf.page_max
           /\ listing.by = "prefix" =>
                 /\ Cardinality(KeysOf(ToSet(page.items))) <= conf.links_per_page_max
                 /\ \A l \in Text : Cardinality(OfLink(page.items, l)) <= conf.per_link_max
    BY <2>3 DEF SizesInv, SizeInv
  <2> QED
    BY <2>1, <2>4, <2>5, <2>6 DEF PagingTypes, TypeOK
<1> QED
  BY <1>1, <1>2, <1>3, PTL DEF Spec

(* Keys are exact for the texts and links of any instance: the bounds of   *)
(* the run play no part, as ScanIsExact, KeysAreStable and                 *)
(* TreesAreSegmentwise hold of all texts and links.                        *)
THEOREM KeysStayExact == Spec => []KeysAreExact
<1>1. KeysAreExact
  BY SomeKeysAreExact DEF KeysAreExact
<1> QED
  BY <1>1, PTL
=============================================================================
