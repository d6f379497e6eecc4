------------------------------- MODULE MCBringup -------------------------------
(***************************************************************************)
(* All the drivers of DriverTables, and the palette of one of them, for    *)
(* TLC.                                                                    *)
(***************************************************************************)
EXTENDS S3cFb, DriverTables

\* The tables are well formed: on every refusal that is looked at, the label
\* releases all that was taken, and the exit function all but what it forgets.
ASSUME TablesBalanced == Balanced

\* Registering comes last and unregistering first, and nothing is used before it
\* was taken or after it was released, but for the drivers marked early and the
\* resources marked blind and twice.
ASSUME TablesOrdered == Ordered

=============================================================================
