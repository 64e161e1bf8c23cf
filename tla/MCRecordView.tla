---------------------------- MODULE MCRecordView ----------------------------
(* A log of a few lines out of four kinds, read under two filter settings. *)
EXTENDS RecordView

Kind(start, mark, hit, low) == [start |-> start, mark |-> mark, hit |-> hit, low |-> low]

MCLines == {Kind(FALSE, FALSE, FALSE, FALSE),  \* a continuation
            Kind(FALSE, FALSE, TRUE, FALSE),   \* a continuation with the text
            Kind(TRUE, FALSE, FALSE, FALSE),   \* a record
            Kind(TRUE, TRUE, FALSE, FALSE)}    \* the first record of a run

MCFilters == {[text |-> FALSE, negate |-> FALSE, level |-> FALSE],
              [text |-> TRUE, negate |-> TRUE, level |-> TRUE]}
=============================================================================
