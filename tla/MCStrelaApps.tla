---------------------------- MODULE MCStrelaApps ----------------------------
(* Small datasets: a 4 x 4 image, so that three runs overlap on a row of sums; *)
(* seven words for relu, so that the last part is longer; two butterflies;     *)
(* five pixels that carry; five words for the search, whose two smallest are   *)
(* below the kernel's first minimum and not the last word, as in the shipped   *)
(* dataset; vectors of two words for the fourteen runs of strela_test.          *)
EXTENDS StrelaApps
MCGiven ==
    [conv2d    |-> <<<<9, 14, 3, 27, 1, 250, 66, 8, 40, 5, 113, 2, 71, 30, 6, 19>>>>,
     relu      |-> <<<<-4, 3, 0, -1, 8, 5, -2>>>>,
     fft       |-> <<<<6, -5, 2, 9>>, <<1, 4, -7, 3>>>>,
     dither    |-> <<<<132, 104, 174, 20, 127>>>>,
     minsearch |-> <<<<-5, 7, -9, 3, 60>>>>]
MCApps == Apps
=============================================================================
