----------------------- MODULE MCCoroutineScheduler -----------------------
(* The settings of CoroutineScheduler that TLC checks.  Callbacks that go  *)
(* on while a result is on its way are tried with the loop of a            *)
(* ServantHandle, which has no lock to miss a notification on.             *)
EXTENDS CoroutineScheduler

AllSettings == {<<"run", TRUE>>, <<"tars_run", TRUE>>, <<"tars_run", FALSE>>}
Threads == {<<"run", TRUE>>}
===========================================================================
