--------------------------- MODULE MCRegistration ---------------------------
EXTENDS Registration

CONSTANTS v1, v2

MCValidators == {v1, v2}

E(pk, ts, kind) == [pk |-> pk, ts |-> ts, kind |-> kind]

\* Two requests for v1 with different timestamps, and every kind of element;
\* v2, known only after a refresh, sends a newer registration that is badly
\* signed.
RaceBatch == <<<<E(v1, 1, "ok"), E(v2, 2, "badsig"), E(v2, 1, "ok"), E(v1, 2, "ok")>>,
               <<E(v1, 2, "ok"), E(v1, 1, "decode"), E(v1, 2, "parse")>>>>
=============================================================================
