---------------------------- MODULE MCTaskQuery ----------------------------
(* Up to three tasks with the same times, different ones or no due time,   *)
(* pages of one or two, one write and one tick during a walk.              *)
EXTENDS TaskQuery

Shape(mine, status, due_at, updated_at) ==
    [mine |-> mine, status |-> status, due_at |-> due_at, updated_at |-> updated_at]
MCShapes ==
    {Shape(TRUE, "TODO", 0, 1), Shape(TRUE, "TODO", 1, 0), Shape(TRUE, "TODO", Null, 0),
     Shape(TRUE, "COMPLETED", 0, 0)}

Filter(status, overdue, due_from, due_to) ==
    [status |-> status, overdue |-> overdue, due_from |-> due_from, due_to |-> due_to]
Filters ==
    {Filter(Null, Null, Null, Null), Filter(Null, TRUE, Null, Null),
     Filter(Null, FALSE, Null, Null), Filter("TODO", Null, 0, 0)}
\* Pages of one by either column, and unfiltered pages of two.
MCAsked ==
    {[status |-> f.status, overdue |-> f.overdue, due_from |-> f.due_from,
      due_to |-> f.due_to, sort_by |-> column, sort_direction |-> direction,
      page_size |-> 1] :
        f \in Filters, direction \in {"asc", "desc"}, column \in {"due_at", "updated_at"}}
    \cup
    {[status |-> Null, overdue |-> Null, due_from |-> Null, due_to |-> Null,
      sort_by |-> "due_at", sort_direction |-> direction, page_size |-> 2] :
        direction \in {"asc", "desc"}}

=============================================================================
