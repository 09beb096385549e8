------------------------------ MODULE AsyncWait -----------------------------
(***************************************************************************)
(* async_wait: an asio operation made of a sender.  An operation is        *)
(* started by async_wait_impl, cancelled through the handler's             *)
(* cancellation slot, and completed by set_value, set_error or             *)
(* set_stopped, which post the handler to its executor.  One handler uses  *)
(* the same slot for all its operations.                                   *)
(***************************************************************************)
EXTENDS Naturals

\* pc: "none", "running" (the sender was started), "posted" (the handler was
\* given to the executor); slot: the cancellation slot is assigned; stop:
\* stop_source was asked to stop; asked: the application cancelled.
NoOp == [pc |-> "none", slot |-> FALSE, stop |-> FALSE, asked |-> FALSE]

\* The slot is not assigned before the operation is started.
MutantImpl == [NoOp EXCEPT !.pc = "running"]

async_wait_impl == [pc |-> "running", slot |-> TRUE, stop |-> FALSE, asked |-> FALSE]

\* cancellation_signal::emit.
emit(op) == [op EXCEPT !.stop = op.stop \/ op.slot, !.asked = TRUE]

\* set_value, set_error and set_stopped: the slot is cleared and the
\* operation state destroyed before the handler is posted.
set_done(op) == [op EXCEPT !.pc = "posted", !.slot = FALSE]
=============================================================================
