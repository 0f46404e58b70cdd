---------------------------- MODULE MCDDEClient ----------------------------
(* A small instance of DDEClient for TLC: a contract of the option chain and *)
(* one the option chain does not know, quoted on the ask side.               *)
EXTENDS DDEClient

AskSide == {"last", "ask1", "askv1"}

\* The contract sends valid and invalid last prices and every kind of BLANK,
\* the stray one enough to be quoted and traded.
AskSends ==
    ({"opt"} \X {"last"} \X {0, 1, Blank})
      \cup ({"opt"} \X {"ask1", "askv1"} \X {1, Blank})
      \cup ({"stray"} \X {"last", "ask1"} \X {1})
=============================================================================
