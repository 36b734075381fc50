----------------------------- MODULE Arithmetic ------------------------------
(* Two calculations: the ADC pipeline of module3 ex04, in fixed point on     *)
(* int32_t, and calc_cpu_usage of the system monitor, on longs.              *)
EXTENDS Integers

CONSTANTS
    INT_MAX,        \* of an int32_t
    Ticks           \* bound: how far a /proc/stat counter is followed

ASSUME ArithmeticAssumption == INT_MAX \in Nat /\ Ticks \in Nat

VARIABLES adc_raw, voltage, temp,   \* the pipeline; adc_raw is NotYet in the monitor
          usage                     \* calc_cpu_usage's a, b and quotient, and
                                    \* history: read_cpu_stat has read both

NotYet == -1
arithmeticVars == <<adc_raw, voltage, temp, usage>>

ADC_MAX == 4095
VREF_MV == 3300
FIXED_SCALE == 256

\* x * y stays within int32_t; the products here are of non-negative numbers.
Fits(x, y) == y = 0 \/ x <= INT_MAX \div y

\* Mutant: the quotient is left out.
VoltageUndivided(raw) == raw * VREF_MV
adc_to_voltage_mv(raw) == (raw * VREF_MV) \div ADC_MAX

INT_TO_FIXED(x) == x * FIXED_SCALE
\* Mutant: the quotient is not scaled back.
DivUnscaled(x, y) == x \div y
FIXED_DIV(x, y) == (x * FIXED_SCALE) \div y

voltage_to_temp(mv) == FIXED_DIV(INT_TO_FIXED(mv), INT_TO_FIXED(10))

\* A sample of /proc/stat: idle and the sum of the other three counters.
Sample == [busy : 0 .. Ticks, idle : 0 .. Ticks]
Total(c) == c.busy + c.idle

\* The quotient before it is taken times 100, as <<numerator, denominator>>.
\* Mutant: no test for two equal totals.
UsageUnguarded(a, b) == <<(Total(b) - Total(a)) - (b.idle - a.idle), Total(b) - Total(a)>>
calc_cpu_usage(a, b) ==
    LET delta_total == Total(b) - Total(a)
        delta_idle == b.idle - a.idle
    IN IF delta_total = 0 THEN <<0, 1>> ELSE <<delta_total - delta_idle, delta_total>>

ArithmeticInit == /\ adc_raw \in NotYet .. ADC_MAX
                  /\ voltage = NotYet /\ temp = NotYet
                  /\ usage = [a |-> [busy |-> 0, idle |-> 0],
                              b |-> [busy |-> 0, idle |-> 0],
                              read |-> TRUE, pct |-> <<0, 1>>]

Measure == /\ adc_raw # NotYet /\ voltage = NotYet
           /\ voltage' = adc_to_voltage_mv(adc_raw)
           /\ UNCHANGED <<adc_raw, temp, usage>>

Convert == /\ voltage # NotYet /\ temp = NotYet
           /\ temp' = voltage_to_temp(voltage)
           /\ UNCHANGED <<adc_raw, voltage, usage>>

\* The result of read_cpu_stat is ignored: after a failure s1 or s2 holds whatever
\* its place on the stack did. Counters read from /proc/stat do not go back from
\* one sample to the next.
Collect(a, b, read) ==
    /\ adc_raw = NotYet
    /\ read => b.busy >= a.busy /\ b.idle >= a.idle
    /\ usage' = [a |-> a, b |-> b, read |-> read, pct |-> calc_cpu_usage(a, b)]
    /\ UNCHANGED <<adc_raw, voltage, temp>>

ArithmeticNext == Measure \/ Convert \/ \E a, b \in Sample, read \in BOOLEAN : Collect(a, b, read)
ArithmeticSpec == ArithmeticInit /\ [][ArithmeticNext]_arithmeticVars

------------------------------------------------------------------------------
\* Type invariant.
ArithmeticTypeOK == /\ adc_raw \in NotYet .. ADC_MAX
                    /\ voltage \in NotYet .. VREF_MV
                    /\ temp \in NotYet .. (VREF_MV * FIXED_SCALE) \div 10
                    /\ usage.pct \in Int \X Int

\* No product of the pipeline leaves int32_t for a reading of the 12-bit ADC,
\* the left shift of FIXED_DIV included.
NoOverflow == voltage # NotYet => /\ Fits(adc_raw, VREF_MV)
                                  /\ Fits(voltage, FIXED_SCALE)
                                  /\ Fits(INT_TO_FIXED(voltage), FIXED_SCALE)

\* Both divisions round down, and lose less than 27/256 of a degree in all: the
\* exact temperature is adc_raw * 5632/273 in units of 1/256 (84480/4095).
TemperatureAccurate == temp # NotYet => /\ temp * 273 <= adc_raw * 5632
                                        /\ adc_raw * 5632 < (temp + 27) * 273

\* Never a division by zero, whatever a failed read left in the samples; and of two
\* samples read, the usage is between 0 and 100 per cent.
UsageIsShare == /\ usage.pct[2] # 0
                /\ usage.read => usage.pct[2] > 0 /\ usage.pct[1] \in 0 .. usage.pct[2]
\* Both calculations: nothing overflows, the temperature is off by less than 27
\* units, the usage is a share when both samples were read.
ArithmeticExact == ArithmeticTypeOK /\ NoOverflow /\ TemperatureAccurate /\ UsageIsShare
==============================================================================
