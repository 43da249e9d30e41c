------------------------- MODULE MCOrganizationExecutor -------------------------
(***************************************************************************)
(* TLC instances of OrganizationExecutor.  The first operation moves a     *)
(* video with its subtitle and then a second video, whose target name is   *)
(* the name the first one had; the second operation wants the place of the *)
(* first video.                                                            *)
(***************************************************************************)
EXTENDS OrganizationExecutor, TLC

CONSTANTS o1, o2, video, subtitle, extra, rival, stranger,
          inbox, shelf, n1, n2, n3, n4

Move(object, from, to) ==
  [object |-> object, sourceParent |-> inbox, sourceName |-> from,
   targetParent |-> shelf, targetName |-> to]

FirstPlan == << <<Move(video, n1, n2), Move(subtitle, n3, n4)>>,
                <<Move(extra, n2, n1)>> >>
SecondPlan == << <<Move(rival, n4, n2)>> >>

OneQueue == <<o1>>
OneStep == o1 :> FirstPlan

TwoQueue == <<o1, o2>>
TwoSteps == (o1 :> << <<Move(video, n1, n2)>> >>) @@ (o2 :> SecondPlan)
=============================================================================
