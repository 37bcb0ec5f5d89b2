-------------------------------- MODULE Sql --------------------------------
(***************************************************************************)
(* What a column or a request's field may hold besides a value.            *)
(***************************************************************************)
CONSTANTS Null,     \* SQL NULL
          Unsent    \* undefined: Prisma leaves such a column as it is

\* The value a column has after an update with a field of the request.
Sent(field, column) == IF field = Unsent THEN column ELSE field
=============================================================================
