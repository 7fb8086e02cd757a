-------------------------- MODULE MCModelRequests --------------------------
(* The loop at small limits, of which each can be the one that ends a run. *)
(* The prompt at the limits of the code, with goals, feedback, pages and   *)
(* evidence of the lengths the schemas allow.                              *)
EXTENDS ModelRequests

CONSTANTS c1, c2, c3, c4

PerSection(goal, feedback, projects, tasks, grounding) ==
    [s \in Sections |->
        CASE s = "goal" -> goal [] s = "feedback" -> feedback
          [] s = "projects" -> projects [] s = "tasks" -> tasks
          [] s = "grounding" -> grounding]

MCBudget == PerSection(4000, 1100, 3000, 5000, 5000)
MCEmpty == PerSection(85, 4, 57, 57, 192)
MCFrame == PerSection(85, 2, 57, 57, 212)
MCLabel == PerSection(2, 2, 17, 17, 13)

Plain(n) == [length |-> n, cluster |-> 1, width |-> 1]
Combined(n) == [length |-> n, cluster |-> 4, width |-> 1]
Quotes(n) == [length |-> n, cluster |-> 1, width |-> 2]
Boundary(n) == [length |-> n, cluster |-> 1, width |-> 7]
Item(identity, text) == [identity |-> identity, text |-> text]
Times(n, item) == [i \in 1..n |-> item]

Goals == {<<Plain(300), <<>> >>,
          <<Combined(2000), Times(20, Item(0, Plain(500)))>>,
          <<Quotes(2000), Times(2, Item(0, Combined(100)))>>}
Feedbacks == {<<>>, <<Item(0, Plain(1000))>>, <<Item(0, Quotes(1000))>>}
ProjectPages == {<<>>, Times(6, Item(417, NoText)), Times(20, Item(398, Combined(2000)))}
\* Titles of one and of 190 characters; of a page the last have descriptions.
TaskPages ==
    {<<>>, Times(20, Item(342, Plain(40))),
     Times(12, Item(550, NoText)) \o Times(8, Item(531, Plain(2000)))}
Evidence == {<<>>, Times(5, Item(568, Combined(500))), Times(10, Item(350, Boundary(500)))}

MCInputs ==
    {[objective |-> goal[1],
      items |-> PerSection(goal[2], feedback, projects, tasks, evidence)] :
        goal \in Goals, feedback \in Feedbacks, projects \in ProjectPages,
        tasks \in TaskPages, evidence \in Evidence}

=============================================================================
