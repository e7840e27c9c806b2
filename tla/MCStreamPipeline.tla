--------------------------- MODULE MCStreamPipeline ---------------------------
EXTENDS StreamPipeline

CONSTANTS p, q, r, b, c     \* processors p, q, r and buffers b, c

\* The pipeline of the examples: a buffer, an optional processor, a processor
\* with the sink.
MCChain == [e \in {b, p, q} |-> IF e = b THEN <<p>> ELSE IF e = p THEN <<q>> ELSE <<>>]

\* Two buffers in series, with a processor between them that can fail.
MCSeries ==
    [e \in {b, p, c, q} |->
        IF e = b THEN <<p>> ELSE IF e = p THEN <<c>> ELSE IF e = c THEN <<q>> ELSE <<>>]

\* A processor with two branches: one behind a buffer, one on its own thread.
MCFork ==
    [e \in {p, b, q, r} |->
        IF e = p THEN <<b, q>> ELSE IF e = b THEN <<r>> ELSE <<>>]

\* A sink, with other visitors before and behind it.
MCVisitors ==
    [e \in Elements |->
        IF e = q THEN <<"AnonymousVisitor", "StreamSink", "OnEosVistor">>
        ELSE IF e = r THEN <<"StreamSink">>
        ELSE IF e \in {b, p} THEN <<"OnEosVistor">> ELSE <<>>]
===============================================================================
