----------------------------- MODULE EventStream -----------------------------
(***************************************************************************)
(* What a response promises to its client and to whoever replays it later. *)
(*                                                                         *)
(* A response has a durable log of events (table response_events) and one  *)
(* live view of it (the SSE stream).  Events get into the log first; the   *)
(* view only ever shows logged events, in log order, at most once.  While  *)
(* the request is alive the view shows the log without holes, and when it  *)
(* is closed it has shown all of it, but for events whose writer was not   *)
(* told that they are logged: those no view ever shows.  A cut request may *)
(* miss others as well.  The log has them all.                             *)
(***************************************************************************)
EXTENDS Naturals, Sequences

CONSTANTS Events,   \* the events a log may hold, records with a field seq
          Final     \* the mark that ends a view, not one of them

VARIABLES log,      \* what replay returns
          view,     \* what the client has been sent
          unheard,  \* the seqs of the logged events whose writer got an error
          cut       \* has the request been cut off?

streamVars == <<log, view, unheard, cut>>

StreamInit == /\ log = <<>>
              /\ view = <<>>
              /\ unheard = {}
              /\ cut = FALSE

Shown(e) == \E j \in 1 .. Len(view) : view[j] = e

(* The view owes nothing that comes before the k-th event.                 *)
Complete(k) == \A i \in 1 .. k - 1 : log[i].seq \in unheard \/ Shown(log[i])

Closed == view # <<>> /\ view[Len(view)] = Final

(* seq grows along the log, so replay by seq returns the order of writing. *)
Persist == /\ log' \in Seq(Events)
           /\ Len(log') = Len(log) + 1
           /\ SubSeq(log', 1, Len(log)) = log
           /\ \A i \in 1 .. Len(log) : log[i].seq < log'[Len(log')].seq
           /\ unheard' \in {unheard, unheard \cup {log'[Len(log')].seq}}
           /\ UNCHANGED <<view, cut>>

(* A cut may make the view skip events, never reorder or repeat them.      *)
Show == \E k \in 1 .. Len(log) :
           /\ ~Closed
           /\ \A i \in 1 .. Len(view) : view[i].seq < log[k].seq
           /\ log[k].seq \notin unheard
           /\ ~cut => Complete(k)
           /\ view' = Append(view, log[k])
           /\ UNCHANGED <<log, unheard, cut>>

Close == /\ ~Closed
         /\ ~cut => Complete(Len(log) + 1)
         /\ view' = Append(view, Final)
         /\ UNCHANGED <<log, unheard, cut>>

Cut == /\ ~cut
       /\ cut' = TRUE
       /\ UNCHANGED <<log, view, unheard>>

StreamNext == Persist \/ Show \/ Close \/ Cut

StreamSpec == StreamInit /\ [][StreamNext]_streamVars
=============================================================================
