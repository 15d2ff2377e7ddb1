---------------------------- MODULE MCMonitoring ----------------------------
EXTENDS Monitoring

\* Nothing, a fast request, a slow one, one slower than the last edge, and one such
\* in twenty-one, which the 95th percentile tolerates.
MCLoads == {[events |-> <<0, 0, 0>>, watts |-> 1],
            [events |-> <<1, 0, 0>>, watts |-> 2],
            [events |-> <<0, 1, 0>>, watts |-> 4],
            [events |-> <<0, 0, 1>>, watts |-> 4],
            [events |-> <<20, 0, 1>>, watts |-> 4]}
=============================================================================
