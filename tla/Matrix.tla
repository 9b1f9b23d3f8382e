------------------------------- MODULE Matrix -------------------------------
(***************************************************************************)
(* The matrices of the interrupt test and their multiplication.            *)
(***************************************************************************)
EXTENDS Integers, FiniteSetsExt

MAT_DIM == 10

mat1 == <<
    <<82, 16, 66, 71, 44, 28, 76, 85, 36, 8>>,
    <<91, 98, 4, 4, 39, 68, 26, 26, 84, 6>>,
    <<13, 96, 85, 28, 77, 66, 51, 82, 59, 54>>,
    <<92, 49, 94, 5, 80, 17, 70, 25, 55, 78>>,
    <<64, 81, 68, 10, 19, 12, 90, 93, 92, 94>>,
    <<10, 15, 76, 83, 49, 50, 96, 35, 29, 13>>,
    <<28, 43, 75, 70, 45, 96, 55, 20, 76, 57>>,
    <<55, 92, 40, 32, 65, 35, 14, 26, 76, 47>>,
    <<96, 80, 66, 96, 71, 59, 15, 62, 39, 2>>,
    <<97, 96, 18, 4, 76, 23, 26, 48, 57, 34>>>>

mat2 == <<
    <<17, 46, 11, 44, 86, 42, 79, 24, 55, 93>>,
    <<80, 9, 97, 92, 63, 5, 39, 36, 30, 78>>,
    <<32, 23, 1, 19, 36, 91, 25, 83, 75, 49>>,
    <<53, 92, 78, 27, 52, 95, 41, 2, 19, 44>>,
    <<17, 16, 82, 15, 41, 50, 10, 5, 69, 45>>,
    <<61, 83, 87, 14, 8, 49, 14, 17, 19, 31>>,
    <<27, 54, 9, 87, 24, 34, 95, 65, 37, 51>>,
    <<66, 100, 40, 58, 13, 91, 96, 74, 63, 52>>,
    <<69, 8, 26, 55, 19, 37, 58, 65, 79, 82>>,
    <<75, 45, 81, 15, 24, 12, 6, 46, 9, 80>>>>

res_expected == <<
    <<21751, 28246, 19770, 22945, 19961, 31594, 30011, 22798, 25940, 29968>>,
    <<23202, 16742, 23881, 23221, 19197, 16768, 22491, 16753, 21594, 30388>>,
    <<32350, 26559, 33427, 27102, 20074, 30532, 26201, 28088, 29269, 35628>>,
    <<24339, 20216, 23666, 23650, 22981, 25597, 25480, 26036, 28730, 36951>>,
    <<33295, 26583, 26547, 31977, 21823, 27824, 34061, 33451, 30082, 41759>>,
    <<19962, 24414, 20554, 19112, 14888, 27874, 22108, 19662, 20773, 23365>>,
    <<28971, 26671, 29944, 21502, 18462, 29006, 22323, 23059, 24526, 32351>>,
    <<25374, 17246, 27389, 21584, 19821, 20633, 19901, 18872, 23126, 31727>>,
    <<27376, 28931, 31116, 24397, 26002, 33618, 27477, 20402, 28034, 34997>>,
    <<23165, 17423, 25332, 23703, 21693, 19268, 23691, 18568, 24117, 32916>>>>

\* res[i] as the inner loops of mat_mult leave it.  No sum reaches 2^32.
MultipliedRow(i) ==
    [j \in 1 .. MAT_DIM |-> MapThenSumSet(LAMBDA k : mat1[i][k] * mat2[k][j], 1 .. MAT_DIM)]

\* The program expects the product.  Both are constants, so TLC evaluates this.
ASSUME ProductAssumption == res_expected = [i \in 1 .. MAT_DIM |-> MultipliedRow(i)]
=============================================================================
