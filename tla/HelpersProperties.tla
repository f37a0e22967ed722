---------------------------- MODULE HelpersProperties ----------------------------
(***************************************************************************)
(* What limits hold although the counters are no sliding window, and what  *)
(* uploads leave behind and lead to.                                       *)
(***************************************************************************)
EXTENDS Helpers

\* Within any window a path is served for less than two limits by Redis (the
\* counter starts afresh, it does not slide), for one more by the memory that
\* stands in for it, and for one more for each restart that empties the memory.
WindowBound == \A p \in Paths :
    Total(admitted[p]) + Total(fallback) <= (3 + Total(restarted)) * Limit - 1

\* 429 does not last: a path that is refused is counted from zero again, unless
\* its key was made by a request that could not give it a life.
Unblocked == \A p \in Paths :
    key[p].count > Limit ~> key[p].count = 0 \/ p \in undying

\* An upload that failed leaves no file, unless its job was queued after all (and
\* saves the file again), or no connection was ever had to queue it with.
NoLeftovers == \A f \in Files :
    upload[f] = "failed" /\ file[f] # "absent" => job[f] # "none"

\* The addresses answered are in the end those of a whole image and its thumbnail,
\* unless it is no image or the worker died while it saved.
Served(f) == file[f] = "whole" /\ (f \in thumb \/ image[f] = "unreadable")
Thumbnailed == \A f \in Files : upload[f] = "answered" ~> Served(f) \/ f \in torn

\* rate_limit.py calls its counters "atomic sliding-window counters" and the auth
\* specification refuses the sixth attempt within 60 seconds: no window has more
\* than the limit.  A counter that starts afresh with its key does not keep this,
\* without any failure.
SlidingWindow == \A p \in Paths : Total(admitted[p]) <= Limit
=============================================================================
