---------------------------- MODULE MCDataAccess ----------------------------
(* Sets of accesses for model checking DataAccess. *)
EXTENDS DataAccess

Load(type, sign, addr)  == [we |-> FALSE, type |-> type, sign |-> sign, addr |-> addr,
                            load_event |-> FALSE]
Store(type, addr)       == [we |-> TRUE, type |-> type, sign |-> 0, addr |-> addr,
                            load_event |-> FALSE]
Elw(addr)               == [Load("word", 1, addr) EXCEPT !.load_event = TRUE]

\* Loads of words at every offset, of half words and bytes within and across words with every
\* kind of extension, and stores that write all or parts of two words.
EveryAccess ==
    {Load("word", 0, addr) : addr \in 0 .. 3}
    \union {Load("half", 0, 3), Load("half", 1, 1), Load("byte", 1, 3)}
    \union {Elw(2)}
    \union {Store("word", 0), Store("word", 3), Store("half", 7)}
=============================================================================
