------------------------------- MODULE MCCpu -------------------------------
(* Two processors; one process reads the console, sleeps or writes, the other *)
(* kills it. *)
EXTENDS Cpu

MCCalls == <<{<<"read", 2>>, <<"sleep", 1>>, <<"write">>}, {<<"kill", 1>>}>>
OneEach == <<1, 1>>
=============================================================================
