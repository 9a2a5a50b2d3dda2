---------------------------- MODULE MCOverrides ----------------------------
(* Model-checking instances of Overrides.                                  *)
EXTENDS Overrides

\* The host sends every feed and rapid override request.
MCAllRequests == FeedRequests \cup RapidRequests

\* The host only lowers the feed override.
MCDecreaseOnly == {"FEED_COARSE_MINUS", "FEED_FINE_MINUS"}

\* The host sends every spindle speed override request.
MCAllSpindleRequests == SpindleSpeedRequests

\* The host only lowers the spindle speed override.
MCSpindleDecreaseOnly == {"SPINDLE_COARSE_MINUS", "SPINDLE_FINE_MINUS"}

\* The range run: the coarse requests of both paths and a rapid request.
\* Steps of 10% reach both clamps of each path from the default of 100%.
MCCoarseRequests == {"FEED_COARSE_PLUS", "FEED_COARSE_MINUS", "RAPID_LOW"}
MCSpindleCoarseRequests == {"SPINDLE_COARSE_PLUS", "SPINDLE_COARSE_MINUS"}
MCFeedCoarseMinus == {"FEED_COARSE_MINUS"}

\* S words: S0, one below rpm_min at most overrides, one inside the linear
\* range, and one that full override drives past rpm_max.
MCSpeedValues == {0, 1000, 5000, 8000}

\* No request of a path: that path stays idle in a run about the other.
MCNone == {}
=============================================================================
