----------------------------- MODULE StreamKernel -----------------------------
(***************************************************************************)
(* What an array that executes a kernel promises to its memory nodes: it   *)
(* takes the words of its columns in order and delivers, in order, what    *)
(* the kernel makes of the words it has taken, whenever it likes.  The     *)
(* time at which words come and results go changes nothing else            *)
(* (README.md of STRELA: elastic logic).                                   *)
(***************************************************************************)
EXTENDS KernelStreams

CONSTANT Jobs   \* by job: [kernel, words, input]

VARIABLES job, got, put     \* what columns took, how many of them; what they delivered

Taken(n) == [c \in Columns |-> SubSeq(Jobs[job].input[c], 1, n[c])]
Result(n) == Outputs(Jobs[job].kernel, Jobs[job].words, Taken(n))

KernelInit ==
    /\ job \in DOMAIN Jobs
    /\ got = [c \in Columns |-> 0] /\ put = [c \in Columns |-> <<>>]

\* In a cycle every column takes at most one word and delivers at most one.
KernelNext ==
    /\ UNCHANGED job
    /\ \A c \in Columns :
         /\ got'[c] \in {got[c], got[c] + 1} /\ got'[c] <= Len(Jobs[job].input[c])
         /\ \/ put'[c] = put[c]
            \/ /\ Len(put[c]) < Len(Result(got)[c])
               /\ put'[c] = Append(put[c], Result(got)[c][Len(put[c]) + 1])

KernelSpec == KernelInit /\ [][KernelNext]_<<job, got, put>>
=============================================================================
