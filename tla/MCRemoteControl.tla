--------------------------- MODULE MCRemoteControl ---------------------------
EXTENDS RemoteControl

P(t, c, p) == [from |-> t, cmd |-> c, part |-> p]
M(c, n)    == [piece |-> P("usb", c, "whole"), len |-> n]

\* A query, *CLS, a command that arrives in two chunks, and one that is too long.
MCMessages == {M("idn", 1), M("cls", 1), M("err", 2), M("set", 4)}

\* The beginning of a line, and a query that removes an error.
MCWrites == {P("vxi", "idn", "head"), P("vxi", "err", "whole")}

LiveMessages == {M("idn", 1), M("set", 2), M("set", 4)}

LiveWrites == {P("vxi", "idn", "whole")}
=============================================================================
