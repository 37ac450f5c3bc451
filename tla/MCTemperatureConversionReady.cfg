\* The worst case is 9 units, the clock wraps every 32.
SPECIFICATION ConversionSpec
CONSTANTS
    Modulus = 32
    Delms = 9
PROPERTIES ReturnsWhenReady
