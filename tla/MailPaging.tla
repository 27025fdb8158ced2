----------------------------- MODULE MailPaging -----------------------------
(***************************************************************************)
(* pipedrive.deals.mail.list and pipedrive.mail.threads.list               *)
(* (tools/mailbox.go): a call asks the upstream for one page after the     *)
(* other, keeps the items that pass its filters, and stops at a cutoff, at *)
(* a cap or at the end.  A caller walks the listing by calling again with  *)
(* start = next_start as long as `more` is reported, while the listing     *)
(* changes and pages may come out of the response cache.                   *)
(*                                                                         *)
(* An item is a message or a thread at its time, message_time or           *)
(* last_message_timestamp, and the upstream lists the latest first.  Times *)
(* are numbers, and no two items have the same.                            *)
(***************************************************************************)
EXTENDS Integers, Sequences, FiniteSets, SequencesExt

CONSTANTS
    FilteredPageSize, \* mailFilteredPageSize
    FilteredHardCap,  \* mailFilteredHardCap
    Limits,           \* the limits callers ask for, after the default is set
    Sinces,           \* the values of since, 0 when it is not given
    MaxTime,          \* bound on the times of the items
    Starts,           \* the listings that there may be at first
    MaxChanges        \* bound on the changes of the listing

ASSUME MailPagingAssumption ==
    /\ FilteredPageSize \in Nat \ {0} /\ FilteredHardCap \in Nat \ {0}
    /\ Limits \subseteq Nat \ {0}
    /\ MaxTime \in Nat /\ MaxChanges \in Nat
    /\ Sinces \subseteq 0 .. MaxTime
    /\ Starts \subseteq SUBSET (1 .. MaxTime)

VARIABLES
    tool,    \* the tool that lists this mailbox
    mailbox, \* the upstream: the listing as it was after each change
    call,    \* the call in progress, or the last one
    walk     \* history: the pages and the items of this walk

vars == <<tool, mailbox, call, walk>>

Times   == 1 .. MaxTime
Deals   == "deals.mail.list"
Threads == "mail.threads.list"

(* A listing: its items, which of them are unread, and, as history, how    *)
(* many have left it so far.                                               *)
Versions == [listed : SUBSET Times, unread : SUBSET Times, left : Nat]

Latest == mailbox[Len(mailbox)]

(* The arguments of a walk.  cache_mode is left open: bypass and refresh   *)
(* get every page as it is, which default may get too.                     *)
Arguments ==
    {a \in [tool : {Deals, Threads}, since : Sinces, unreadOnly : BOOLEAN,
            limit : Limits] :
       a.unreadOnly => a.tool = Threads}

Filtered(a) == a.since > 0 \/ a.unreadOnly

Larger(m, n)  == IF m < n THEN n ELSE m
Smaller(m, n) == IF m < n THEN m ELSE n

PageLimit(a) ==
    IF ~Filtered(a) THEN a.limit
    ELSE IF a.tool = Deals THEN Larger(a.limit, FilteredPageSize)
    ELSE FilteredPageSize

HardCap(a) == IF Filtered(a) THEN Smaller(a.limit, FilteredHardCap) ELSE a.limit

(* The offset of an item in a listing: how many are listed before it. *)
Above(listed, m) == Cardinality({k \in listed : k > m})

ItemAt(listed, offset) == CHOOSE m \in listed : Above(listed, m) = offset

(* The page of a listing from an offset on, and whether items follow it. *)
Page(listed, start, limit) ==
    [p \in 1 .. Smaller(limit, Cardinality(listed) - start) |-> ItemAt(listed, start + p - 1)]

PageMore(listed, start, limit) == start + limit < Cardinality(listed)

Idle == [pc |-> "idle"]

(* first, opened, newest: the versions of the listing that the first page  *)
(* of the walk, the first of the call and the last one were taken from, 0  *)
(* before there is one; aged: a page was older than one before, and the    *)
(* rest is forgotten; got: the items returned.                             *)
NoWalk == [first |-> 0, opened |-> 0, newest |-> 0, aged |-> FALSE, got |-> {}]
Aged   == [NoWalk EXCEPT !.aged = TRUE]

Init ==
    /\ tool \in {Deals, Threads}
    /\ \E listed \in Starts : \E unread \in SUBSET listed :
           /\ tool = Deals => unread = {}
           /\ mailbox = <<[listed |-> listed, unread |-> unread, left |-> 0]>>
    /\ call = Idle
    /\ walk = NoWalk

----------------------------------------------------------------------------
(* The upstream: how a listing may change between two requests. *)

Change(version) ==
    /\ Len(mailbox) <= MaxChanges
    /\ mailbox' = Append(mailbox, version)
    /\ UNCHANGED <<tool, call, walk>>

Flagged(m, flag) == IF flag THEN {m} ELSE {}

(* An item comes in: new mail, or anywhere in the listing an item that is  *)
(* restored, or linked to the deal later.                                  *)
ComeIn(m, flag) ==
    /\ m \notin Latest.listed
    /\ flag => tool = Threads
    /\ Change([Latest EXCEPT !.listed = @ \union {m}, !.unread = @ \union Flagged(m, flag)])

(* A thread gets a message and moves up to its time. *)
Rise(m, n, flag) ==
    /\ tool = Threads
    /\ m \in Latest.listed
    /\ n \notin Latest.listed /\ n > m
    /\ Change([Latest EXCEPT !.listed = (@ \ {m}) \union {n},
                             !.unread = (@ \ {m}) \union Flagged(n, flag)])

(* An item is deleted, or moved to another folder. *)
Leave(m) ==
    /\ m \in Latest.listed
    /\ Change([Latest EXCEPT !.listed = @ \ {m}, !.unread = @ \ {m}, !.left = @ + 1])

(* A thread is read, or marked as unread. *)
Flip(m) ==
    /\ tool = Threads
    /\ m \in Latest.listed
    /\ Change([Latest EXCEPT !.unread = IF m \in @ THEN @ \ {m} ELSE @ \union {m}])

Upstream ==
    \/ \E m \in Times, flag \in BOOLEAN : ComeIn(m, flag)
    \/ \E m, n \in Times, flag \in BOOLEAN : Rise(m, n, flag)
    \/ \E m \in Times : Leave(m) \/ Flip(m)

----------------------------------------------------------------------------
(* The calls. *)

NewCall(a, start) ==
    [pc |-> "page", args |-> a, start |-> start, cursor |-> start, collected |-> << >>,
     pastCutoff |-> FALSE, more |-> FALSE, next |-> 0]

BeginWalk(a) ==
    /\ call.pc = "idle"
    /\ a.tool = tool
    /\ call' = NewCall(a, 0)
    /\ UNCHANGED <<tool, mailbox, walk>>

(* Whether item m passes the filters in a listing with these unread items. *)
Wanted(a, unread, m) == m >= a.since /\ (a.unreadOnly => m \in unread)

(* Mutated Scan: a thread that is read counts as one past the cutoff. *)
ScanReadCutsOff(a, unread, items, c) ==
    FoldLeft(LAMBDA s, m :
               IF Len(s.collected) >= HardCap(a) THEN s
               ELSE IF Wanted(a, unread, m) THEN [s EXCEPT !.collected = Append(@, m)]
               ELSE [s EXCEPT !.pastCutoff = TRUE],
             c, items)

(* Mutated Scan: the cap is looked at after the page. *)
ScanWholePage(a, unread, items, c) ==
    FoldLeft(LAMBDA s, m :
               IF m < a.since THEN [s EXCEPT !.pastCutoff = TRUE]
               ELSE IF Wanted(a, unread, m) THEN [s EXCEPT !.collected = Append(@, m)]
               ELSE s,
             c, items)

(* The loop over the items of a page, up to the one that fills the cap. *)
Scan(a, unread, items, c) ==
    FoldLeft(LAMBDA s, m :
               IF Len(s.collected) >= HardCap(a) THEN s
               ELSE IF m < a.since THEN [s EXCEPT !.pastCutoff = TRUE]
               ELSE IF Wanted(a, unread, m) THEN [s EXCEPT !.collected = Append(@, m)]
               ELSE s,
             c, items)

(* Mutated AfterPage: the cursor stays where the call has started. *)
AfterPageFromStart(a, c, pageMore, pageNext) ==
    IF pageMore /\ Filtered(a) /\ ~c.pastCutoff /\ Len(c.collected) < HardCap(a)
    THEN [c EXCEPT !.cursor = c.start]
    ELSE [c EXCEPT !.pc = "returned", !.more = pageMore, !.next = pageNext]

(* Mutated AfterPage: the end of a page counts as the end of the listing. *)
AfterPageLast(a, c, pageMore, pageNext) ==
    [c EXCEPT !.pc = "returned", !.more = FALSE, !.next = 0]

(* Go on with the next page, or return.  At the cap both tools report the  *)
(* end of the page, not the item they have stopped at; below it,           *)
(* mail.threads.list reports nothing more when it has filtered.            *)
AfterPage(a, c, pageMore, pageNext) ==
    IF Len(c.collected) >= HardCap(a) /\ Filtered(a)
    THEN [c EXCEPT !.pc = "returned", !.more = pageMore \/ c.pastCutoff,
                   !.next = IF pageMore THEN pageNext ELSE 0]
    ELSE IF Filtered(a) /\ ~c.pastCutoff /\ pageMore
    THEN [c EXCEPT !.cursor = pageNext]
    ELSE IF Filtered(a) /\ a.tool = Threads
    THEN [c EXCEPT !.pc = "returned"]
    ELSE [c EXCEPT !.pc = "returned", !.more = pageMore,
                   !.next = IF pageMore THEN pageNext ELSE 0]

(* A page of version n of the listing, with what the call returns, if so. *)
Remember(n, returned) ==
    IF walk.aged \/ n < walk.newest THEN Aged
    ELSE [walk EXCEPT !.first = IF @ = 0 THEN n ELSE @,
                      !.opened = IF call.cursor = call.start THEN n ELSE @,
                      !.newest = n, !.got = @ \union returned]

(* One page is answered, by the upstream as the listing is now, or by a    *)
(* cache entry of an earlier version.                                      *)
ReceivePage(n) ==
    LET a      == call.args
        limit  == PageLimit(a)
        listed == mailbox[n].listed
        c      == Scan(a, mailbox[n].unread, Page(listed, call.cursor, limit), call)
    IN  /\ call.pc = "page"
        /\ call' = AfterPage(a, c, PageMore(listed, call.cursor, limit), call.cursor + limit)
        /\ walk' = Remember(n, IF call'.pc = "returned" THEN ToSet(c.collected) ELSE {})
        /\ UNCHANGED <<tool, mailbox>>

(* A page fails: the call returns an error and drops what it has. *)
PageFails ==
    /\ call.pc = "page"
    /\ call' = Idle
    /\ walk' = NoWalk
    /\ UNCHANGED <<tool, mailbox>>

(* The caller goes on where the answer tells him to, ... *)
NextCall ==
    /\ call.pc = "returned"
    /\ call.more
    /\ call' = NewCall(call.args, call.next)
    /\ UNCHANGED <<tool, mailbox, walk>>

(* ... or is done with the walk. *)
EndWalk ==
    /\ call.pc = "returned"
    /\ call' = Idle
    /\ walk' = NoWalk
    /\ UNCHANGED <<tool, mailbox>>

ReceiveSome == \E n \in 1 .. Len(mailbox) : ReceivePage(n)

Next ==
    \/ \E a \in Arguments : BeginWalk(a)
    \/ ReceiveSome
    \/ PageFails
    \/ NextCall
    \/ EndWalk
    \/ Upstream

Spec == Init /\ [][Next]_vars

(* Each request is answered or, by the HTTP client's timeout at the latest, *)
(* fails.  A failure ends the call, so that fairness is asked of the       *)
(* answers only: a call that gets them all must still come to its end.     *)
FairSpec == Spec /\ WF_vars(ReceiveSome)

----------------------------------------------------------------------------
(* Properties. *)

Calls == [pc : {"page", "returned"}, args : Arguments, start : Nat, cursor : Nat,
          collected : Seq(Times), pastCutoff : BOOLEAN, more : BOOLEAN, next : Nat]

Walks == [first : Nat, opened : Nat, newest : Nat, aged : BOOLEAN, got : SUBSET Times]

(* Every variable has its shape, and a call never holds more than its cap. *)
TypeOK ==
    /\ tool \in {Deals, Threads}
    /\ mailbox \in Seq(Versions)
    /\ call = Idle \/ call \in Calls
    /\ call # Idle => Len(call.collected) <= HardCap(call.args)
    /\ walk \in Walks

(* What is listed from version v to version w all the time, at one place.  *)
(* A thread that gets a message is another item from then on: a walk that  *)
(* has passed its new place does not meet it, and nothing is claimed of it.*)
Lasting(v, w) == {m \in Times : \A u \in v .. w : m \in mailbox[u].listed}

(* How many items have left the listing between the two. *)
LeftBetween(v, w) == mailbox[w].left - mailbox[v].left

(* A walk without filters that has come to its end has returned what was   *)
(* listed at all its pages, but for one item at most for each that left    *)
(* the listing meanwhile and pulled the others towards the front: new      *)
(* mail, threads that move up and flags hide nothing.  This is so although *)
(* each page is cached for itself, unless one was older than one before.   *)
PlainWalkGaps ==
    (call.pc = "returned" /\ ~Filtered(call.args) /\ ~call.more /\ ~walk.aged) =>
        Cardinality(Lasting(walk.first, walk.newest) \ walk.got)
            <= LeftBetween(walk.first, walk.newest)

(* What passes the filters at every page of the call and was not before    *)
(* its start when it began.                                                *)
Due ==
    {m \in Lasting(walk.opened, walk.newest) :
       /\ Above(mailbox[walk.opened].listed, m) >= call.start
       /\ \A u \in walk.opened .. walk.newest : Wanted(call.args, mailbox[u].unread, m)}

(* A filtered call that returns fewer items than its cap has returned all  *)
(* that is due, again but for one for each that left the listing: neither  *)
(* the cutoff nor threads that move or are read make it stop too early.    *)
BelowCapGaps ==
    (/\ call.pc = "returned" /\ Filtered(call.args) /\ ~walk.aged
     /\ Len(call.collected) < HardCap(call.args)) =>
        Cardinality(Due \ ToSet(call.collected)) <= LeftBetween(walk.opened, walk.newest)

(* No call pages for ever, whatever arrives. *)
CallsReturn == call.pc = "page" ~> call.pc # "page"

(* "Keep messages with message_time >= this": a walk with `since` that has *)
(* come to its end has returned all of them, in a listing that nothing     *)
(* leaves.  At the cap the tools report the end of the page, and the rest  *)
(* of the page is skipped.                                                 *)
SinceWalkComplete ==
    (/\ call.pc = "returned" /\ call.args.since > 0 /\ ~call.args.unreadOnly /\ ~call.more
     /\ ~walk.aged /\ LeftBetween(walk.first, walk.newest) = 0) =>
        {m \in Lasting(walk.first, walk.newest) : m >= call.args.since} \subseteq walk.got
=============================================================================
