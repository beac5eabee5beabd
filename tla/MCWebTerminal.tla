--------------------------- MODULE MCWebTerminal ---------------------------
(* Model-checking instances of WebTerminal. *)
EXTENDS WebTerminal

Setup(n, o, i, u, h) ==
  [network |-> n, out |-> o, in |-> i, usb |-> u, heartbeat |-> h]

\* Output, input and heartbeat of the network build, each with nothing else to
\* do, and both directions of the USB build.
Apart == {Setup(TRUE, 3, 0, TRUE, FALSE), Setup(TRUE, 0, 3, TRUE, FALSE),
          Setup(TRUE, 0, 0, FALSE, TRUE), Setup(FALSE, 3, 2, TRUE, FALSE)}
=============================================================================
