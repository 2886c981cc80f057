------------------------------ MODULE Queries ------------------------------
(***************************************************************************)
(* What the domain layer computes about queries: the pages of a list       *)
(* (Pagination, PaginatedResult) and the two readings of a specification,  *)
(* in memory (is_satisfied_by) and as query parameters (to_query_params).  *)
(* No repository in the source reads the parameters: a list of key-value   *)
(* filters, all of which must hold, is what Repository.list promises.      *)
(***************************************************************************)
EXTENDS Integers

-----------------------------------------------------------------------------
(* Pages                                                                   *)

\* Pagination accepts page >= 1 and 1 <= page_size <= 100.
Offset(page, pageSize) == (page - 1) * pageSize
TotalPages(total, pageSize) ==
    IF pageSize = 0 THEN 0 ELSE (total + pageSize - 1) \div pageSize
HasNext(page, pageSize, total) == page < TotalPages(total, pageSize)

\* The items, numbered from 0, that a query with this offset and limit returns.
OnPage(item, page, pageSize) ==
    Offset(page, pageSize) <= item /\ item < Offset(page, pageSize) + pageSize

-----------------------------------------------------------------------------
(* Specifications.  A value is what its filter selects: params maps each    *)
(* key to the entities it lets through, sat are those that satisfy the      *)
(* specification in memory.                                                *)

Selected(params, Entity) == {e \in Entity : \A k \in DOMAIN params : e \in params[k]}

\* dict.update: the right one's value for a key of both.
Updated(left, right) ==
    [k \in DOMAIN left \cup DOMAIN right |-> IF k \in DOMAIN right THEN right[k] ELSE left[k]]

And(left, right) ==
    [sat |-> left.sat \cap right.sat, params |-> Updated(left.params, right.params)]
Or(left, right, Entity) ==
    [sat |-> left.sat \cup right.sat,
     params |-> [k \in {"_or"} |-> Selected(left.params, Entity) \cup Selected(right.params, Entity)]]
Not(spec, Entity) ==
    [sat |-> Entity \ spec.sat, params |-> [k \in {"_not"} |-> Entity \ Selected(spec.params, Entity)]]

\* The query returns what satisfies the specification.
Faithful(spec, Entity) == Selected(spec.params, Entity) = spec.sat
=============================================================================
