----------------------------- MODULE MCPtpPort -----------------------------
(* Small networks for the port: data sets of up to three foreign masters,  *)
(* more than a table of two can hold.                                      *)
EXTENDS PtpMasters

\* Attributes: priority1, clockClass, clockAccuracy, variance, priority2.
QualityOf(p1, class) == <<p1, class, 1, 1, 1>>

Own248 == QualityOf(2, 248)   \* DEFAULT_CLOCK_CLASS
Own255 == QualityOf(2, 255)   \* DEFAULT_CLOCK_CLASS_SLAVE_ONLY
Own6   == QualityOf(2, 6)     \* a primary reference

\* Two clocks better than the local one, and one that is worse.
Primary == [src |-> <<1, 1>>, gm |-> 1, q |-> QualityOf(1, 6), steps |-> 0]
Backup  == [src |-> <<3, 1>>, gm |-> 3, q |-> QualityOf(1, 7), steps |-> 0]
Lesser  == [src |-> <<4, 1>>, gm |-> 4, q |-> QualityOf(3, 248), steps |-> 0]

TwoMasters   == {Primary, Backup}
ThreeMasters == {Primary, Backup, Lesser}
Rivals       == {Primary, Lesser}

\* The first master also announces a second data set, with a longer path.
ChangingMasters == ThreeMasters \cup {[Primary EXCEPT !.steps = 2]}
=============================================================================
