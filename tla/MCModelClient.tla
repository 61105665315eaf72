---- MODULE MCModelClient ----
EXTENDS ModelClient
SomeTokens == {[input |-> 2, output |-> 1, read |-> 3, write |-> 4]}
====
