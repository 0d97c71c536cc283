------------------------------- MODULE Reports -------------------------------
(***************************************************************************)
(* Reports of bad tracks (crates/bot/src/handlers/report.rs): the registry *)
(* of open reports and its index by track, the limit on reports per user,  *)
(* the /report command with its reason buttons, and the owner's buttons on *)
(* the card of a report.                                                   *)
(*                                                                         *)
(* Every handler runs as a task of its own; the registry's mutex is held   *)
(* for one step at a time and never across an await.  Texts and titles are *)
(* left out; what Delete does to the cache is modelled in CacheAdmin.      *)
(***************************************************************************)
EXTENDS Integers, Sequences, FiniteSets, Bitwise

CONSTANTS
    User, Admin,     \* users who may report; Admin \in User is not limited
    Track,
    Limit,           \* USER_RATE_LIMIT_MAX, 5
    Window,          \* USER_RATE_LIMIT_WINDOW_MS, one hour
    MaxTime,         \* bound on the clock, in milliseconds
    Req,             \* handlers that may run at one time
    MaxReports       \* bound on REPORT_COUNTER

VARIABLES
    now,             \* now_ms()
    counter,         \* REPORT_COUNTER
    reports,         \* ReportState.reports: id -> track
    byTrack,         \* ReportState.reports_by_track: track -> id
    stamps,          \* ReportState.user_timestamps
    req,             \* the running handlers
    shown,           \* reason keyboards in the chats: [user, track]
    cards,           \* report cards the owner received: [id, track]
    granted,         \* history: when each user passed the limit
    given            \* history: the ids of the reports, oldest first

vars == <<now, counter, reports, byTrack, stamps, req, shown, cards, granted, given>>

Idle == [at |-> "idle", kind |-> "none", user |-> Admin, track |-> CHOOSE t \in Track : TRUE,
         id |-> 0]

TypeOK ==
    /\ now \in 0 .. MaxTime /\ counter \in 0 .. MaxReports
    /\ \A i \in DOMAIN reports : i \in Nat /\ reports[i] \in Track
    /\ DOMAIN byTrack \subseteq Track
    /\ \A u \in User : stamps[u] \in Seq(0 .. MaxTime)
    /\ \A r \in Req : req[r].at \in {"idle", "find", "dup", "limit", "lookup", "meta", "card",
                                     "admin", "work"}
    /\ shown \subseteq User \X Track
    /\ given \in Seq(Nat) /\ Len(given) = counter

Init ==
    /\ now = 0 /\ counter = 0
    /\ reports = <<>> /\ byTrack = <<>>
    /\ stamps = [u \in User |-> <<>>] /\ granted = [u \in User |-> <<>>]
    /\ req = [r \in Req |-> Idle]
    /\ shown = {} /\ cards = {} /\ given = <<>>

With(f, x, y) == [z \in DOMAIN f \cup {x} |-> IF z = x THEN y ELSE f[z]]
Without(f, x) == [z \in DOMAIN f \ {x} |-> f[z]]
Go(r, at) == req' = [req EXCEPT ![r].at = at]
End(r) == req' = [req EXCEPT ![r] = Idle]
Registry == <<reports, byTrack>>
Rates == <<stamps, granted>>
Clock == <<now, counter, given>>

Tick ==
    /\ now < MaxTime
    /\ now' = now + 1
    /\ UNCHANGED <<counter, reports, byTrack, stamps, req, shown, cards, granted, given>>

-----------------------------------------------------------------------------
(* Submitting. *)

\* /report with a reason, /report alone, or a press of a reason button.
Begin(r, kind, u, t) ==
    /\ req[r] = Idle
    /\ kind = "button" => <<u, t>> \in shown
    /\ req' = [req EXCEPT ![r] = [Idle EXCEPT !.at = IF kind = "button" THEN "dup" ELSE "find",
                                              !.kind = kind, !.user = u, !.track = t]]
    /\ UNCHANGED <<Clock, Registry, Rates, shown, cards>>

\* The command looks the track up in the cache, which may not have it.
FindTarget(r, found) ==
    /\ req[r].at = "find"
    /\ IF found THEN Go(r, "dup") ELSE End(r)
    /\ UNCHANGED <<Clock, Registry, Rates, shown, cards>>

\* "Already Under Review".
CheckDuplicate(r) ==
    /\ req[r].at = "dup"
    /\ IF req[r].track \in DOMAIN byTrack THEN End(r) ELSE Go(r, "limit")
    /\ UNCHANGED <<Clock, Registry, Rates, shown, cards>>

Recent(u) == SelectSeq(stamps[u], LAMBDA t : now - t < Window)

MayReport(u) == Len(Recent(u)) < Limit

\* check_user_rate_limit, which /report alone pays before the buttons show and
\* the button pays again.
CheckLimit(r) ==
    /\ req[r].at = "limit"
    /\ LET u == req[r].user
           pass == u = Admin \/ MayReport(u) IN
       /\ stamps' = [stamps EXCEPT ![u] = CASE u = Admin -> @
                                            [] pass -> Append(Recent(u), now)
                                            [] OTHER -> Recent(u)]
       /\ granted' = IF pass /\ u # Admin THEN [granted EXCEPT ![u] = Append(@, now)] ELSE granted
       /\ shown' = IF pass /\ req[r].kind = "bare" THEN shown \cup {<<u, req[r].track>>}
                                                   ELSE shown
       /\ IF pass /\ req[r].kind # "bare"
          THEN Go(r, IF req[r].kind = "button" THEN "lookup" ELSE "meta")
          ELSE End(r)
    /\ UNCHANGED <<Clock, Registry, cards>>

LookUp(r, found) ==
    /\ req[r].at = "lookup"
    /\ IF found THEN Go(r, "meta") ELSE End(r)
    /\ UNCHANGED <<Clock, Registry, Rates, shown, cards>>

\* The clock and the counter, xored: two reports may be given one id, as the first
\* at 0 and the second at 1.
random_report_id == now ^^ counter

\* dispatch_report, after the catalogue answered or failed.
Register(r) ==
    /\ req[r].at = "meta" /\ counter < MaxReports
    /\ counter' = counter + 1
    /\ given' = Append(given, random_report_id)
    /\ byTrack' = With(byTrack, req[r].track, random_report_id)
    /\ reports' = With(reports, random_report_id, req[r].track)
    /\ req' = [req EXCEPT ![r].at = "card", ![r].id = random_report_id]
    /\ UNCHANGED <<now, Rates, shown, cards>>

\* The card may be lost; nobody is told.
SendCard(r, ok) ==
    /\ req[r].at = "card"
    /\ cards' = IF ok THEN cards \cup {[id |-> req[r].id, track |-> req[r].track]} ELSE cards
    /\ End(r)
    /\ UNCHANGED <<Clock, Registry, Rates, shown>>

-----------------------------------------------------------------------------
(* The owner's buttons.  A card keeps its buttons when an action failed and *)
(* two presses may run side by side.                                        *)

\* A mutant of Dismiss: the index is left alone.
DismissKeepsIndex(r, c) ==
    /\ req[r] = Idle /\ c.id \in DOMAIN reports
    /\ reports' = Without(reports, c.id)
    /\ cards' = cards \ {c}
    /\ UNCHANGED <<Clock, byTrack, Rates, req, shown>>

Dismiss(r, c) ==
    /\ req[r] = Idle /\ c.id \in DOMAIN reports
    /\ byTrack' = Without(byTrack, reports[c.id])
    /\ reports' = Without(reports, c.id)
    /\ cards' = cards \ {c}
    /\ UNCHANGED <<Clock, Rates, req, shown>>

\* Delete and Rerip read the report, and work without the lock: the dump
\* message and the rows are deleted, or a forced rip is run.
Press(r, c) ==
    /\ req[r] = Idle /\ c.id \in DOMAIN reports /\ reports[c.id] = c.track
    /\ req' = [req EXCEPT ![r] = [Idle EXCEPT !.at = "work", !.track = c.track, !.id = c.id]]
    /\ UNCHANGED <<Clock, Registry, Rates, shown, cards>>

Work(r, ok) ==
    /\ req[r].at = "work"
    /\ LET id == req[r].id
           t == req[r].track IN
       IF ok THEN /\ byTrack' = Without(byTrack, t)
                  /\ reports' = Without(reports, id)
                  /\ cards' = cards \ {[id |-> id, track |-> t]}
             ELSE UNCHANGED <<Registry, cards>>
    /\ End(r)
    /\ UNCHANGED <<Clock, Rates, shown>>

Next ==
    \/ Tick
    \/ \E r \in Req :
          \/ \E kind \in {"reason", "bare", "button"}, u \in User, t \in Track : Begin(r, kind, u, t)
          \/ \E found \in BOOLEAN : FindTarget(r, found) \/ LookUp(r, found)
          \/ CheckDuplicate(r) \/ CheckLimit(r) \/ Register(r)
          \/ \E ok \in BOOLEAN : SendCard(r, ok) \/ Work(r, ok)
          \/ \E c \in cards : Dismiss(r, c) \/ Press(r, c)

Spec == Init /\ [][Next]_vars

-----------------------------------------------------------------------------

\* That an id was given to two reports.
Repeated(id) == \E i, j \in DOMAIN given : i # j /\ given[i] = id /\ given[j] = id

\* A track that is turned away as "Already Under Review" has an open report of
\* its own, so that closing the report lets the track be reported again, unless the
\* id of its report was given twice (reports_by_track and reports are only ever
\* changed together).
IndexPointsToReport ==
    \A t \in DOMAIN byTrack :
        Repeated(byTrack[t]) \/ (byTrack[t] \in DOMAIN reports /\ reports[byTrack[t]] = t)

\* A track that is turned away is "currently under review by the administrator":
\* its report is open, and its card is with the owner or on the way to him.  This
\* fails when an id is given twice or a card cannot be sent, and is not checked.
UnderReview ==
    \A t \in DOMAIN byTrack :
        /\ byTrack[t] \in DOMAIN reports /\ reports[byTrack[t]] = t
        /\ \/ [id |-> byTrack[t], track |-> t] \in cards
           \/ \E r \in Req : req[r].at = "card" /\ req[r].id = byTrack[t]

\* No user passes the limit more than Limit times in any Window, whichever of
\* the two entries he uses (check_user_rate_limit).
WindowHolds ==
    \A u \in User \ {Admin} : \A i \in DOMAIN granted[u] :
       i > Limit => granted[u][i] - granted[u][i - Limit] >= Window

\* The index of open reports and the rate limit hold together, however the
\* requests of users and the owner overlap (report.rs).
ReportsKept ==
    TypeOK /\ IndexPointsToReport /\ WindowHolds
=============================================================================
