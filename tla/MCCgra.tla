------------------------------- MODULE MCCgra -------------------------------
(* Every kernel that an application loads, on the smallest streams that fill *)
(* its longest path and take its loop more than once.                        *)
EXTENDS Cgra, KernelTables

Job(k, w, a, b, c, d) ==
    [kernel |-> k, words |-> w, input |-> 0 :> a @@ 1 :> b @@ 2 :> c @@ 3 :> d]
Delays(n) == 24 :> n @@ 39 :> n @@ 54 :> n @@ 69 :> n

MCJobs ==
    [bypass    |-> Job("bypass", <<>>, <<1, 2>>, <<3, 4>>, <<>>, <<>>),
     relu      |-> Job("relu", <<>>, <<-4, 3>>, <<5, -1>>, <<>>, <<2, -6>>),
     fft       |-> Job("fft", <<>>, <<6, -5>>, <<2, 9>>, <<1, 4>>, <<-7, 3>>),
     fft_short |-> Job("fft", <<>>, <<6, -5>>, <<2, 9>>, <<1>>, <<-7, 3>>),
     conv2d_1  |-> Job("conv2d_1", <<>>, <<9, 14, 3>>, <<3, 27, 1>>, <<1, 250, 66>>, <<>>),
     conv2d_2  |-> Job("conv2d_2", KernelWords.conv2d_2, <<9, 14>>, <<3, 27>>, <<1, 250>>, <<5, 8>>),
     dither    |-> Job("dither", <<>>, <<132, 104, 174, 20>>, <<>>, <<>>, <<>>),
     minsearch |-> Job("minsearch", Delays(4), <<-5, 7, -9, -60>>, <<>>, <<-5, 7, -9, -60>>, <<>>)]

\* In fft_short the real results go on although column 2 has no more words.
\* minsearch is right as long as its two streams are less than seven cycles
\* apart: see SkewedStalls.
MCMaxStalls ==
    [bypass |-> 3, relu |-> 3, fft |-> 3, fft_short |-> 1, conv2d_1 |-> 4, conv2d_2 |-> 3, dither |-> 6,
     minsearch |-> 3]

Tables(jobs) == [j \in DOMAIN jobs |-> Table(jobs[j].kernel, jobs[j].words)]
MCCells == Tables(MCJobs)

ASSUME MCLoads == \A j \in DOMAIN MCJobs : Loads(MCJobs[j], MCCells[j])

\* The two copies of its vector reach minsearch seven cycles apart.
SkewedJobs   == [minsearch |-> Job("minsearch", Delays(4), <<1, -2, 3, -4>>, <<>>, <<1, -2, 3, -4>>, <<>>)]
SkewedCells  == Tables(SkewedJobs)
SkewedStalls == [minsearch |-> 7]
=============================================================================
