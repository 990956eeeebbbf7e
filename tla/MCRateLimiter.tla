---------------------------- MODULE MCRateLimiter ----------------------------
(***************************************************************************)
(* RateLimiter with three keys and two callers, over a few windows.  Half  *)
(* of the behaviours are prompt: in those no call waits for the lock while *)
(* the clock ticks, as if MaxDelay were 0.                                 *)
(***************************************************************************)
EXTENDS RateLimiter, TLC

CONSTANTS MaxTime,   \* the clock stops here
          MaxCalls   \* calls that have entered, at most

CONSTANTS k1, k2, k3, c1, c2

ThreeKeys  == {k1, k2, k3}
TwoCallers == {c1, c2}

VARIABLE prompt

Prompt == prompt /\ clock' # clock => pending = {}

MCInit == Init /\ prompt \in BOOLEAN

MCNext == Next /\ Prompt /\ UNCHANGED prompt

MCSpec == MCInit /\ [][MCNext]_<<vars, prompt>>

Bounded == clock <= MaxTime /\ calls <= MaxCalls

KeySymmetry == Permutations(ThreeKeys) \cup Permutations(TwoCallers)

\* "on the single prod node it is exact" (ratelimit.go:17): as long as no call waits
\* for the lock, no key gets more than Limit admissions within the whole window.
ExactIfPrompt == prompt => ExactWindow
=============================================================================
