---------------------------- MODULE MCReviewClips ----------------------------
(* ReviewClips for TLC: recordings at one and a half times, two thirds and  *)
(* nearly three times the analysis rate.                                    *)
EXTENDS Integers

CONSTANTS Lengths, Loudness, Shortest, MaxWorkers, Killed

VARIABLES recording, copy, mode, scopes, clips, scored, worker, started

Rates == {<<3, 2>>, <<2, 3>>, <<11, 4>>}

INSTANCE ReviewClips

=============================================================================
