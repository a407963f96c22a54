------------------------ MODULE MCCompetitionTracker ------------------------
\* CompetitionTracker for TLC: the values of its constants are in the .cfg file.
\* The auctions are interchangeable, but liveness rules out a symmetry.
EXTENDS CompetitionTracker
=============================================================================
