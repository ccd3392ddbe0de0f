--------------------------- MODULE MCChunkAttempt ---------------------------
(***************************************************************************)
(* Model checking of ChunkAttempt.                                         *)
(***************************************************************************)
EXTENDS ChunkAttempt

CONSTANTS payer, key1, key2

Use(key, writable, signer) == [key |-> key, writable |-> writable, signer |-> signer]

With(metas, targets) == [metas |-> metas, targets |-> targets]

\* Two accounts of which one may be left to a table: both read, one of them
\* written, or one of them a signer in the second of its uses.
Reading == With(<<Use(payer, TRUE, TRUE), Use(key1, FALSE, FALSE), Use(key2, FALSE, FALSE)>>, {})
Writing == With(<<Use(key1, FALSE, FALSE), Use(key2, TRUE, FALSE), Use(key1, FALSE, FALSE)>>, {})
Signing == With(<<Use(key1, FALSE, FALSE), Use(key1, FALSE, TRUE),
                  Use(key2, FALSE, FALSE), Use(key2, FALSE, FALSE)>>, {})

\* Nothing to offload, with accounts to capture or without.
Capturing == With(<<Use(payer, TRUE, TRUE)>>, {key1, key2})
Plain == With(<<Use(payer, TRUE, TRUE)>>, {})

SomeChunks == {Reading, Writing, Signing, Capturing, Plain}

SomeCatalogs == {<<>>, <<{key1}>>}

Fee(recent, maxCu, low, high) ==
    [recent |-> recent, maxCu |-> maxCu, minPrice |-> low, maxPrice |-> high,
     hysteresis |-> 2000]

Basic == Fee(FALSE, 100000, 4, 8)

SomeFees ==
    {Basic, Fee(FALSE, 1400000, 4, 8), Fee(TRUE, 1400000, 4, 8),
     Fee(TRUE, 100000, 9, 8)}

\* The components are put to work one at a time.
OnCapture ==
    /\ \A t \in Tasks : plan[t] = [l \in 1..Layers |-> IF l = 1 THEN Capturing ELSE Plain]
    /\ catalog = <<>> /\ feeOpts = Basic

OnTables ==
    /\ \A t \in Tasks : \E c \in {Reading, Writing, Signing} : plan[t] = [l \in 1..Layers |-> c]
    /\ fetcher = "rpc" /\ feeOpts = Basic

OnFees ==
    /\ \A t \in Tasks : plan[t] = [l \in 1..Layers |-> Plain]
    /\ fetcher = "rpc" /\ slot = MaxSlot /\ catalog = <<>>

FocusedInit == Init /\ (OnCapture \/ OnTables \/ OnFees)

FocusedSpec == FocusedInit /\ [][Next]_vars

=============================================================================
