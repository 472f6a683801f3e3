-------------------------- MODULE MCRosController ---------------------------
(* RosController for TLC: the moves of the ROS service each run allows. *)
EXTENDS LifeCycleMapping, TLC

Sym == Permutations(Apps) \cup Permutations(Watchers) \cup Permutations(Ids)

(* The service works, or rolls back. *)
NormalMoves == {
  <<"CREATE_IN_PROGRESS", "CREATE_COMPLETE">>,
  <<"CREATE_IN_PROGRESS", "CREATE_ROLLBACK_IN_PROGRESS">>,
  <<"CREATE_ROLLBACK_IN_PROGRESS", "CREATE_ROLLBACK_COMPLETE">>,
  <<"UPDATE_IN_PROGRESS", "UPDATE_COMPLETE">>,
  <<"UPDATE_IN_PROGRESS", "ROLLBACK_IN_PROGRESS">>,
  <<"ROLLBACK_IN_PROGRESS", "ROLLBACK_COMPLETE">>,
  <<"DELETE_IN_PROGRESS", "DELETE_COMPLETE">>}

(* The service always succeeds. *)
SuccessMoves == {
  <<"CREATE_IN_PROGRESS", "CREATE_COMPLETE">>,
  <<"UPDATE_IN_PROGRESS", "UPDATE_COMPLETE">>,
  <<"DELETE_IN_PROGRESS", "DELETE_COMPLETE">>}

(* An operator checks or deletes stacks at the console. *)
OperatorMoves == SuccessMoves \cup {
  <<"CREATE_COMPLETE", "CHECK_IN_PROGRESS">>,
  <<"CHECK_IN_PROGRESS", "CHECK_COMPLETE">>,
  <<"CREATE_COMPLETE", "DELETE_IN_PROGRESS">>,
  <<"UPDATE_COMPLETE", "DELETE_IN_PROGRESS">>}

(* ... except that it may fail to delete a stack. *)
TroubledMoves == SuccessMoves \cup {<<"DELETE_IN_PROGRESS", "DELETE_FAILED">>}
=============================================================================
