------------------------------ MODULE ListQuery ------------------------------
(***************************************************************************)
(* One entry of the web client's query cache (React Query, configured in   *)
(* main.tsx): the answer on screen, the request under way and whether the   *)
(* entry counts as out of date.  A request asks the database, the database  *)
(* reads (fetch = "read", the answer is in got) and the answer arrives.     *)
(* The library shares one request among all who ask: a poll or a mount      *)
(* joins the one that runs.  Only an invalidation cancels and restarts it,  *)
(* and only if the entry already has data.                                  *)
(***************************************************************************)
CONSTANT NoData     \* nothing has arrived yet

Query(Answers) == [data : Answers \cup {NoData}, fetch : {"idle", "asked", "read"},
                   got : Answers \cup {NoData}, stale : BOOLEAN]

Unfetched == [data |-> NoData, fetch |-> "idle", got |-> NoData, stale |-> FALSE]

\* A new request; the answer of one it replaces is dropped.
Ask(q) == [q EXCEPT !.fetch = "asked", !.got = NoData]

\* refetchInterval, a regained focus: joins a request that is under way.
Polled(q) == IF q.fetch = "idle" THEN Ask(q) ELSE q

\* A page that shows the entry is opened: it asks unless the data is fresh.
Mounted(q) == IF q.data = NoData \/ q.stale THEN Polled(q) ELSE q

\* invalidateQueries: an entry on screen asks anew; one that is not only
\* remembers.  A first request, with no data to fall back on, is not cancelled.
Invalidated(q, onScreen) ==
    LET marked == [q EXCEPT !.stale = TRUE]
    IN  CASE ~onScreen                   -> marked
          [] onScreen /\ q.data # NoData -> Ask(marked)
          [] OTHER                       -> Polled(marked)

\* The database answers the request with what it holds now.
Answered(q, answer) == [q EXCEPT !.fetch = "read", !.got = answer]

\* The answer arrives: the entry is fresh again, whatever was invalidated since
\* the database read.
Arrived(q) == [data |-> q.got, fetch |-> "idle", got |-> NoData, stale |-> FALSE]

\* The request and its two retries failed: the data on screen stays.
Failed(q) == [q EXCEPT !.fetch = "idle", !.got = NoData]

\* staleTime has passed.
Aged(q) == [q EXCEPT !.stale = TRUE]
=============================================================================
