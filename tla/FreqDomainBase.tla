------------------------- MODULE FreqDomainBase --------------------------
(* Frequencies, bands and active bins (utils/FreqDomainBase.cpp).  Rates   *)
(* and frequencies are integers, rates multiples of twice NFFT \div 2, so  *)
(* that the division is exact.  A band is a pair of frequencies.           *)
EXTENDS Integers, FiniteSets

nfreq(NFFT) == NFFT \div 2 + 1

(* frequency_vector: from 0 to half the sample rate in NFFT \div 2 steps.  *)
Frequency(k, NFFT, sample_rate) ==
    (k * sample_rate) \div (2 * (NFFT \div 2))

InBand(f, band) == band[1] <= f /\ f <= band[2]

(* active_frequencies once recomputed: the bins of positive weight.        *)
ActiveBins(bands, NFFT, sample_rate) ==
    {k \in 0..(nfreq(NFFT) - 1) :
        \E band \in bands : InBand(Frequency(k, NFFT, sample_rate), band)}

(* The band each of the two calls adds; {} when the call does nothing.     *)
MinMaxBand(f_low, f_high) ==
    IF f_low < f_high THEN {<<f_low, f_high>>} ELSE {}

CenterBand(f_center, b_width) ==
    LET f_low == f_center - b_width \div 2
    IN  IF f_center > 0
        THEN {<<IF f_low > 0 THEN f_low ELSE 0, f_center + b_width \div 2>>}
        ELSE {}
==========================================================================
